---- MODULE Spec2Model ----
(***************************************************************************)
(* Snack dispenser: the decision-and-control loop.                         *)
(*                                                                         *)
(* The repository holds several variants of the same controller.  Each is  *)
(* modelled as its own specification over one set of variables; a variant  *)
(* that is not running keeps its program counters at "off".                *)
(*                                                                         *)
(*   SpecMotor      MotorController.dispense, pin by pin                   *)
(*                  (src/src/motor/control.py)                             *)
(*   SpecEstimator  BowlStateDetector.is_bowl_empty, batch by batch        *)
(*                  (src/src/vision/predict.py)                            *)
(*   SpecCombined   BowlStateAndHopperController.run with its command      *)
(*                  callback (src/src/detector/bowl_state_detector.py)     *)
(*   SpecAws        the sequential orchestrator (src/aws/main.py)          *)
(*   SpecApp        the threaded orchestrator (src/src/app/main.py)        *)
(*   SpecPolicy     both orchestrators                                     *)
(*   SpecLoops      the three control loops                                *)
(*   SpecTelemetry  the message each publish_state builds                   *)
(*   SpecShared     the one BowlStateDetector of SnackBotComponent, called  *)
(*                  by run() and by the verification of dispense_snack      *)
(*   FairCombined   SpecCombined with the run thread and time progressing  *)
(*   FairAws        SpecAws with the main thread and time progressing      *)
(*                                                                         *)
(* Confidences are exact rationals in units of 1/600, so that the mean of  *)
(* up to six frame confidences, each a multiple of 60, is an integer:      *)
(* 0.6 = 360, 0.7 = 420, 0.9 = 540.  Time is counted in ticks of           *)
(* TickSeconds seconds; a sleep holds its thread for at least its ticks.   *)
(***************************************************************************)
EXTENDS Integers, Sequences, FiniteSets, TLC

VARIABLES
    \* ---- GPIO pins (RPi.GPIO), shared by every motor driver
    en_pin,          \* "HIGH" = driver disabled, "LOW" = driver enabled
    step_pin,        \* "HIGH" / "LOW"
    \* ---- MotorController.dispense, one invocation at a time (SpecMotor)
    m_pc,            \* position inside dispense
    m_amount,        \* the argument: portions to dispense
    m_portion,       \* portions completed by the outer loop
    m_step,          \* steps completed by step() in the current portion
    m_pulses,        \* full step pulses emitted by this invocation
    m_error,         \* an exception was caught by the except clause
    m_ret,           \* what dispense handed to its caller: "none" until it returns
    m_time,          \* milliseconds the call has spent in time.sleep
    \* ---- BowlStateDetector (SpecEstimator)
    e_pc,            \* "off", "ready", "capture" or "decide"
    last_state,      \* "None", "Empty" (True) or "Full" (False)
    state_confidence,
    consecutive_opposite_predictions,
    required_consecutive_changes,
    frame_buffer_size,
    batch,           \* the frames captured by the call under way
    n_samples,       \* len(predictions) of the call that returned last (history)
    ret,             \* what the last is_bowl_empty call returned
    calls,           \* is_bowl_empty calls returned so far (history)
    votes,           \* the majority votes of the batches that had a sample (history)
    \* ---- time, in ticks
    since_done,      \* ticks since the last dispense returned, -1 before the
                     \* first, counted up to min_dispense_interval (history)
    too_soon,        \* two dispenses returned less than min_dispense_interval
                     \* apart (history)
    \* ---- BowlStateAndHopperController (SpecCombined)
    c_pc,            \* position of run()
    c_timer,         \* ticks left of the time.sleep under way
    c_is_empty,      \* is_empty, conf of the current cycle
    c_conf,
    ipc_client,      \* 0 = None, 1 and 2 = clients (connect() returns them in turn)
    last_client,     \* the client connect() returned last, 0 before the first
    subscribed,      \* a subscription to bowl/command is active
    consecutive_failures,
    g_attempt,       \* get_ipc_client: the loop variable
    g_fails,         \* get_ipc_client: failed attempts of this invocation
    g_result,        \* get_ipc_client: "none", "running", "client", "ConnectionError"
    p_attempt,       \* publish_state: the loop variable
    p_tries,         \* publish_state: attempts made by this invocation
    p_fails,         \* publish_state: failed attempts of this invocation
    p_used,          \* publish_state: the client handles this invocation used
    p_result,        \* publish_state: "none", "running", "True", "False"
    cb_pc,           \* position of the on_command callback
    cb_timer,
    fails_run,       \* failed publish_state calls in a row (history)
    reconnect_calls, \* get_ipc_client invocations since the last discard (history)
    \* ---- the orchestrators (SpecAws, SpecApp)
    aws_pc,          \* position of main() of src/aws/main.py
    app_pc,          \* position of SnackBotComponent.run and should_dispense
    o_timer,         \* ticks left of the time.sleep of the loop
    o_is_empty,      \* is_empty, confidence of the current cycle
    o_conf,
    o_tmp,           \* consecutive_empty_count as loaded by `+= 1`
    o_ret,           \* the decision of the cycle: "none", "True", "False"
    published,       \* what the cycle has passed to publish_state, if anything
    elapsed,         \* ticks since last_dispense_time, counted up to ElapsedCap
    consecutive_empty_count,
    is_dispensing,
    queue,           \* dispense_snack tasks submitted and not yet taken
    w_pc,            \* position of each worker of the ThreadPoolExecutor
    w_timer,
    running,         \* the flag the signal handler clears
    camera,          \* the frame source: "open" or "released"
    h_pc,            \* position of the signal handler SnackBotComponent.stop
    \* ---- the telemetry message (SpecTelemetry)
    t_pc,            \* "off", "ready", "sent"
    t_now,           \* time.time() at the call, in milliseconds
    t_is_empty,      \* the arguments of publish_state
    t_conf,
    t_count,         \* consecutive_empty_count at the call
    message,         \* the dict passed to json.dumps
    \* ---- the detector shared by run() and dispense_snack (SpecShared)
    s_pc,            \* position of each caller, inside is_bowl_empty or outside
    s_cur,           \* current_empty of each call under way: "Empty", "Full", "none"
    s_updates,       \* calls that entered the transition logic since run() began its cycle
    s_submitted      \* run() has submitted a dispense_snack that no worker has taken

pinVars == <<en_pin, step_pin>>
motorVars == <<m_pc, m_amount, m_portion, m_step, m_pulses, m_error, m_ret,
              m_time>>
estVars == <<e_pc, last_state, state_confidence, consecutive_opposite_predictions,
             required_consecutive_changes, frame_buffer_size, batch, n_samples, ret,
             calls, votes>>
combVars == <<c_pc, c_timer, c_is_empty, c_conf, ipc_client, last_client, subscribed,
              consecutive_failures, g_attempt, g_fails, g_result, p_attempt, p_tries,
              p_fails, p_used, p_result, cb_pc, cb_timer, fails_run, reconnect_calls>>
timeVars == <<since_done, too_soon>>
orchVars == <<aws_pc, app_pc, o_timer, o_is_empty, o_conf, o_tmp, o_ret, published, elapsed,
              consecutive_empty_count, is_dispensing, queue, w_pc, w_timer,
              running, camera, h_pc>>
telVars == <<t_pc, t_now, t_is_empty, t_conf, t_count, message>>
sharedVars == <<s_pc, s_cur, s_updates, s_submitted>>
vars == <<pinVars, motorVars, estVars, combVars, timeVars, orchVars, telVars,
          sharedVars>>

----------------------------------------------------------------------------
\* Bounds of the model

MaxPortions == 2
MaxRequiredChanges == 2
MaxFrameBuffer == 3
MaxBatches == 4
MaxReconnectCalls == 2
MaxEmptyCount == 2
MaxQueue == 1

----------------------------------------------------------------------------
\* MotorController (src/src/motor/control.py); the drivers of
\* src/common/motor/control.py, src/src/motor/hopper_controller.py and
\* src/src/detector/bowl_state_detector.py have the same dispense.

steps_per_portion == 200

\* step(steps, rpm=30, steps_per_rev=200); dispense passes the number of
\* steps only
rpm == 30
steps_per_rev == 200

\* time.sleep(0.05) of enable_motor and time.sleep(0.5) after a portion, in
\* milliseconds
EnableSettle == 50
PortionSleep == 500

\* A delay of one whole step, shared between its two edges.
StepDelayPerPulse(r, spr) == ((60 * 1000) \div (r * spr)) \div 2

\* delay_per_step = 60.0 / (rpm * steps_per_rev), in milliseconds
StepDelay(r, spr) == (60 * 1000) \div (r * spr)

\* setup_gpio: en HIGH (disabled), step LOW
PinsInit ==
    /\ en_pin = "HIGH"
    /\ step_pin = "LOW"

MotorInit ==
    /\ m_pc = "idle"
    /\ m_amount = 0
    /\ m_portion = 0
    /\ m_step = 0
    /\ m_pulses = 0
    /\ m_error = FALSE
    /\ m_ret = "none"
    /\ m_time = 0

MotorOff ==
    /\ m_pc = "off"
    /\ m_amount = 0
    /\ m_portion = 0
    /\ m_step = 0
    /\ m_pulses = 0
    /\ m_error = FALSE
    /\ m_ret = "none"
    /\ m_time = 0

\* dispense(amount) is entered: the try block starts
DispenseCall ==
    /\ m_pc \in {"idle", "returned"}
    /\ \E amount \in 1..MaxPortions : m_amount' = amount
    /\ m_pc' = "enable"
    /\ m_portion' = 0
    /\ m_step' = 0
    /\ m_pulses' = 0
    /\ m_error' = FALSE
    /\ m_ret' = "none"
    /\ m_time' = 0
    /\ UNCHANGED <<en_pin, step_pin>>

\* enable_motor: GPIO.output(en_pin, LOW); sleep(0.05)
EnableMotor ==
    /\ m_pc = "enable"
    /\ en_pin' = "LOW"
    /\ m_pc' = "step_high"
    /\ m_time' = m_time + EnableSettle
    /\ UNCHANGED <<step_pin, m_amount, m_portion, m_step, m_pulses, m_error, m_ret>>

\* GPIO.output raises inside enable_motor; the write may or may not have
\* reached the pin.  Control goes to the except clause, then finally.
EnableMotorRaises ==
    /\ m_pc = "enable"
    /\ en_pin' \in {en_pin, "LOW"}
    /\ m_error' = TRUE
    /\ m_pc' = "finally"
    /\ UNCHANGED <<step_pin, m_amount, m_portion, m_step, m_pulses, m_ret, m_time>>

\* step(): GPIO.output(step_pin, HIGH); sleep(delay)
StepHigh ==
    /\ m_pc = "step_high"
    /\ step_pin' = "HIGH"
    /\ m_pc' = "step_low"
    /\ m_time' = m_time + StepDelay(rpm, steps_per_rev)
    /\ UNCHANGED <<en_pin, m_amount, m_portion, m_step, m_pulses, m_error, m_ret>>

\* A loop of step() that ends one pulse early.
StepLowOneShort ==
    /\ m_pc = "step_low"
    /\ step_pin' = "LOW"
    /\ m_pulses' = m_pulses + 1
    /\ m_step' = m_step + 1
    /\ m_pc' = IF m_step + 2 = steps_per_portion THEN "pause" ELSE "step_high"
    /\ m_time' = m_time + StepDelay(rpm, steps_per_rev)
    /\ UNCHANGED <<en_pin, m_amount, m_portion, m_error, m_ret>>

\* step(): GPIO.output(step_pin, LOW); sleep(delay); the for loop of step()
\* ends after steps_per_portion pulses
StepLow ==
    /\ m_pc = "step_low"
    /\ step_pin' = "LOW"
    /\ m_pulses' = m_pulses + 1
    /\ m_step' = m_step + 1
    /\ m_pc' = IF m_step + 1 = steps_per_portion THEN "pause" ELSE "step_high"
    /\ m_time' = m_time + StepDelay(rpm, steps_per_rev)
    /\ UNCHANGED <<en_pin, m_amount, m_portion, m_error, m_ret>>

\* A step pulse whose error is swallowed inside step(): the loop goes on.
StepRaisesAndGoesOn ==
    /\ m_pc \in {"step_high", "step_low"}
    /\ step_pin' \in {step_pin, IF m_pc = "step_high" THEN "HIGH" ELSE "LOW"}
    /\ m_error' = TRUE
    /\ m_pc' = "step_high"
    /\ UNCHANGED <<en_pin, m_amount, m_portion, m_step, m_pulses, m_ret, m_time>>

\* a step pulse raises (on either edge); the write may or may not have
\* reached the pin
StepRaises ==
    /\ m_pc \in {"step_high", "step_low"}
    /\ step_pin' \in {step_pin, IF m_pc = "step_high" THEN "HIGH" ELSE "LOW"}
    /\ m_error' = TRUE
    /\ m_pc' = "finally"
    /\ UNCHANGED <<en_pin, m_amount, m_portion, m_step, m_pulses, m_ret, m_time>>

\* time.sleep(0.5) after a portion; the for loop over portions
PortionPause ==
    /\ m_pc = "pause"
    /\ m_portion' = m_portion + 1
    /\ m_step' = 0
    /\ m_pc' = IF m_portion + 1 = m_amount THEN "finally" ELSE "step_high"
    /\ m_time' = m_time + PortionSleep
    /\ UNCHANGED <<en_pin, step_pin, m_amount, m_pulses, m_error, m_ret>>

\* A finally clause that disables the driver only after a clean run.
DisableOnSuccessOnly ==
    /\ m_pc = "finally"
    /\ en_pin' = IF m_error THEN en_pin ELSE "HIGH"
    /\ m_pc' = "returned"
    /\ m_ret' = "None"
    /\ UNCHANGED <<step_pin, m_amount, m_portion, m_step, m_pulses, m_error, m_time>>

\* finally: disable_motor(): GPIO.output(en_pin, HIGH); dispense returns
DisableMotor ==
    /\ m_pc = "finally"
    /\ en_pin' = "HIGH"
    /\ m_pc' = "returned"
    /\ m_ret' = "None"
    /\ UNCHANGED <<step_pin, m_amount, m_portion, m_step, m_pulses, m_error, m_time>>

NextMotor ==
    /\ \/ DispenseCall
       \/ EnableMotor
       \/ EnableMotorRaises
       \/ StepHigh
       \/ StepLow
       \/ StepRaises
       \/ PortionPause
       \/ DisableMotor
    /\ UNCHANGED <<estVars, combVars, timeVars, orchVars, telVars, sharedVars>>

----------------------------------------------------------------------------
\* BowlStateDetector (src/src/vision/predict.py)

ConfLevels == {360, 540}
confidence_threshold == 420

\* predict_single_frame: (None, 0.0) on any failure, else (is_empty, confidence)
FrameFail == [ok |-> FALSE, is_empty |-> FALSE, confidence |-> 0]
FrameOk(e, c) == [ok |-> TRUE, is_empty |-> e, confidence |-> c]
FrameResults == {FrameFail} \cup {FrameOk(e, c) : e \in BOOLEAN, c \in ConfLevels}

\* The frames one call captures.  is_bowl_empty reads them only through
\* len(predictions), sum(predictions) and sum(confidences), so a batch is
\* kept up to the order of its frames: failures, then Empty, then Full.
FrameOrder ==
    <<FrameFail, FrameOk(TRUE, 360), FrameOk(TRUE, 540),
      FrameOk(FALSE, 360), FrameOk(FALSE, 540)>>

BatchesOf ==
    [n \in 1..6 |->
        {[i \in 1..n |-> FrameOrder[g[i]]] :
            g \in {f \in [1..n -> 1..Len(FrameOrder)] :
                      \A i \in 1..(n - 1) : f[i] <= f[i + 1]}}]

Batches(n) == BatchesOf[n]

\* the batch b with the frame f added
WithFrame(b, f) ==
    CHOOSE c \in Batches(Len(b) + 1) :
        \A g \in FrameResults :
            Cardinality({i \in DOMAIN c : c[i] = g})
                = Cardinality({i \in DOMAIN b : b[i] = g}) + (IF g = f THEN 1 ELSE 0)

\* A capture loop that gives up at the first frame that failed.
AttemptsLeftUntilFailure(b, n) == Len(b) < n /\ \A i \in DOMAIN b : b[i].ok

\* `for _ in range(self.frame_buffer_size)`: another attempt follows
AttemptsLeft(b, n) == Len(b) < n

\* the frames whose is_empty is not None
Samples(b) == SelectSeq(b, LAMBDA f : f.ok)

RECURSIVE SumEmpty(_)
SumEmpty(s) ==
    IF s = <<>> THEN 0
    ELSE (IF Head(s).is_empty THEN 1 ELSE 0) + SumEmpty(Tail(s))

RECURSIVE SumConfidence(_)
SumConfidence(s) ==
    IF s = <<>> THEN 0 ELSE Head(s).confidence + SumConfidence(Tail(s))

\* A vote that an exact half of the samples carries.
CurrentEmptyOnHalf(s) == 2 * SumEmpty(s) >= Len(s)

\* sum(predictions) > len(predictions) / 2
CurrentEmpty(s) == 2 * SumEmpty(s) > Len(s)

\* sum(confidences) / len(confidences)
AvgConfidence(s) == SumConfidence(s) \div Len(s)

AsState(e) == IF e THEN "Empty" ELSE "Full"

\* `self.last_state or False`
Truthy(ls) == ls = "Empty"

\* A streak that an agreeing vote does not reset.
StateTransitionNoReset(s, ls, sc, cop, rcc) ==
    LET cur == AsState(CurrentEmpty(s))
        avg == AvgConfidence(s)
    IN  IF ls = "None"
        THEN [last_state |-> cur, state_confidence |-> avg, cop |-> cop,
              is_empty |-> CurrentEmpty(s), confidence |-> avg]
        ELSE IF cur # ls
        THEN IF cop + 1 >= rcc
             THEN [last_state |-> cur, state_confidence |-> avg, cop |-> 0,
                   is_empty |-> CurrentEmpty(s), confidence |-> avg]
             ELSE [last_state |-> ls, state_confidence |-> sc, cop |-> cop + 1,
                   is_empty |-> Truthy(ls), confidence |-> sc]
        ELSE [last_state |-> ls, state_confidence |-> sc, cop |-> cop,
              is_empty |-> Truthy(ls), confidence |-> sc]

\* A transition that stores and returns the mean confidence of every batch.
StateTransitionAdoptsAverage(s, ls, sc, cop, rcc) ==
    LET cur == AsState(CurrentEmpty(s))
        avg == AvgConfidence(s)
    IN  IF ls = "None"
        THEN [last_state |-> cur, state_confidence |-> avg, cop |-> cop,
              is_empty |-> CurrentEmpty(s), confidence |-> avg]
        ELSE IF cur # ls
        THEN IF cop + 1 >= rcc
             THEN [last_state |-> cur, state_confidence |-> avg, cop |-> 0,
                   is_empty |-> CurrentEmpty(s), confidence |-> avg]
             ELSE [last_state |-> ls, state_confidence |-> avg, cop |-> cop + 1,
                   is_empty |-> Truthy(ls), confidence |-> avg]
        ELSE [last_state |-> ls, state_confidence |-> avg, cop |-> 0,
              is_empty |-> Truthy(ls), confidence |-> avg]

\* A first observation that is held back as one disagreeing vote.
FirstObservationHeldBack(s, cop) ==
    [last_state |-> AsState(CurrentEmpty(s)), state_confidence |-> 0, cop |-> cop + 1,
     is_empty |-> FALSE, confidence |-> 0]

\* `if self.last_state is None`: the vote and its mean confidence are
\* stored and returned, the streak is not touched
FirstObservation(s, cop) ==
    [last_state |-> AsState(CurrentEmpty(s)), state_confidence |-> AvgConfidence(s),
     cop |-> cop, is_empty |-> CurrentEmpty(s), confidence |-> AvgConfidence(s)]

\* A transition that adopts the new state one disagreeing call later.
StateTransitionLateFlip(s, ls, sc, cop, rcc) ==
    LET cur == AsState(CurrentEmpty(s))
        avg == AvgConfidence(s)
    IN  IF ls = "None"
        THEN FirstObservation(s, cop)
        ELSE IF cur # ls
        THEN IF cop + 1 > rcc
             THEN [last_state |-> cur, state_confidence |-> avg, cop |-> 0,
                   is_empty |-> CurrentEmpty(s), confidence |-> avg]
             ELSE [last_state |-> ls, state_confidence |-> sc, cop |-> cop + 1,
                   is_empty |-> Truthy(ls), confidence |-> sc]
        ELSE [last_state |-> ls, state_confidence |-> sc, cop |-> 0,
              is_empty |-> Truthy(ls), confidence |-> sc]

\* The state transition logic of is_bowl_empty on the samples s (not empty),
\* from the detector state (ls, sc, cop): the detector state after the call
\* and the pair returned.
StateTransition(s, ls, sc, cop, rcc) ==
    LET cur == AsState(CurrentEmpty(s))
        avg == AvgConfidence(s)
    IN  IF ls = "None"
        THEN FirstObservation(s, cop)
        ELSE IF cur # ls
        THEN IF cop + 1 >= rcc
             THEN [last_state |-> cur, state_confidence |-> avg, cop |-> 0,
                   is_empty |-> CurrentEmpty(s), confidence |-> avg]
             ELSE [last_state |-> ls, state_confidence |-> sc, cop |-> cop + 1,
                   is_empty |-> Truthy(ls), confidence |-> sc]
        ELSE [last_state |-> ls, state_confidence |-> sc, cop |-> 0,
              is_empty |-> Truthy(ls), confidence |-> sc]

\* A fallback that reports Empty when no frame could be classified.
IsBowlEmptyDefaultEmpty(b, ls, sc, cop, rcc) ==
    IF Samples(b) = <<>>
    THEN [last_state |-> ls, state_confidence |-> sc, cop |-> cop,
          is_empty |-> TRUE, confidence |-> 0]
    ELSE StateTransition(Samples(b), ls, sc, cop, rcc)

\* is_bowl_empty on the captured frames b
IsBowlEmpty(b, ls, sc, cop, rcc) ==
    IF Samples(b) = <<>>
    THEN [last_state |-> ls, state_confidence |-> sc, cop |-> cop,
          is_empty |-> Truthy(ls), confidence |-> 0]
    ELSE StateTransition(Samples(b), ls, sc, cop, rcc)

NoReturn == [is_empty |-> FALSE, confidence |-> 0]

\* __init__: last_state None, state_confidence 0.0, streak 0; the two
\* configuration options are read by load_config
EstimatorInit ==
    /\ e_pc = "ready"
    /\ last_state = "None"
    /\ state_confidence = 0
    /\ consecutive_opposite_predictions = 0
    /\ required_consecutive_changes \in 1..MaxRequiredChanges
    /\ frame_buffer_size \in 1..MaxFrameBuffer
    /\ batch = <<>>
    /\ n_samples = 0
    /\ ret = NoReturn
    /\ calls = 0
    /\ votes = <<>>

EstimatorOff ==
    /\ e_pc = "off"
    /\ last_state = "None"
    /\ state_confidence = 0
    /\ consecutive_opposite_predictions = 0
    /\ required_consecutive_changes = 2
    /\ frame_buffer_size = 3
    /\ batch = <<>>
    /\ n_samples = 0
    /\ ret = NoReturn
    /\ calls = 0
    /\ votes = <<>>

\* is_bowl_empty is called: predictions = [], confidences = []
CallIsBowlEmpty ==
    /\ e_pc = "ready"
    /\ calls < MaxBatches
    /\ batch' = <<>>
    /\ e_pc' = "capture"
    /\ UNCHANGED <<last_state, state_confidence, consecutive_opposite_predictions,
                   required_consecutive_changes, frame_buffer_size, n_samples, ret,
                   calls, votes>>

\* one turn of the for loop: predict_single_frame returns (is_empty,
\* confidence), or (None, 0.0) when the capture, the preprocessing or the
\* model failed, and only a classified frame is appended
CaptureFrame ==
    /\ e_pc = "capture"
    /\ AttemptsLeft(batch, frame_buffer_size)
    /\ \E f \in FrameResults : batch' = WithFrame(batch, f)
    /\ UNCHANGED <<e_pc, last_state, state_confidence, consecutive_opposite_predictions,
                   required_consecutive_changes, frame_buffer_size, n_samples, ret,
                   calls, votes>>

\* the for loop is over
CaptureDone ==
    /\ e_pc = "capture"
    /\ ~AttemptsLeft(batch, frame_buffer_size)
    /\ e_pc' = "decide"
    /\ UNCHANGED <<last_state, state_confidence, consecutive_opposite_predictions,
                   required_consecutive_changes, frame_buffer_size, batch, n_samples,
                   ret, calls, votes>>

\* is_bowl_empty, after the loop: the fallback or the state transition; returns
Decide ==
    /\ e_pc = "decide"
    /\ LET r == IsBowlEmpty(batch, last_state, state_confidence,
                            consecutive_opposite_predictions,
                            required_consecutive_changes)
       IN  /\ last_state' = r.last_state
           /\ state_confidence' = r.state_confidence
           /\ consecutive_opposite_predictions' = r.cop
           /\ ret' = [is_empty |-> r.is_empty, confidence |-> r.confidence]
    /\ votes' = IF Samples(batch) = <<>> THEN votes
                ELSE Append(votes, AsState(CurrentEmpty(Samples(batch))))
    /\ calls' = calls + 1
    /\ n_samples' = Len(Samples(batch))
    /\ batch' = <<>>
    /\ e_pc' = "ready"
    /\ UNCHANGED <<required_consecutive_changes, frame_buffer_size>>

NextEstimator ==
    /\ \/ CallIsBowlEmpty
       \/ CaptureFrame
       \/ CaptureDone
       \/ Decide
    /\ UNCHANGED <<pinVars, motorVars, combVars, timeVars, orchVars, telVars, sharedVars>>

----------------------------------------------------------------------------
\* Time passes in ticks of TickSeconds.  A thread inside time.sleep(d) cannot
\* move before Ticks(d) ticks have passed; nothing else bounds how long a step
\* takes or when a thread is scheduled.

TickSeconds == 2
Ticks(seconds) == seconds \div TickSeconds

min_dispense_interval == 30

TimeInit ==
    /\ since_done = -1
    /\ too_soon = FALSE

Expire(t) == IF t > 0 THEN t - 1 ELSE 0

\* one tick passes for the history of dispense returns
HistoryTick ==
    /\ since_done' = IF since_done = -1 \/ since_done = Ticks(min_dispense_interval)
                     THEN since_done ELSE since_done + 1
    /\ UNCHANGED too_soon

\* a dispense returns
DispenseReturns ==
    /\ since_done' = 0
    /\ too_soon' = (too_soon \/ (since_done # -1 /\ since_done < Ticks(min_dispense_interval)))

\* step(steps_per_portion) at rpm 30 and 200 steps per revolution sleeps
\* twice per step for 60 / (rpm * steps_per_rev) seconds: 4 s per portion
DispenseSeconds == (2 * steps_per_portion * 60) \div (rpm * steps_per_rev)

\* In the controllers a dispense is followed at the enable pin: enabled,
\* then the stepping over after DispenseSeconds or cut short by a pulse that
\* raised, then disabled.  The pulses themselves are SpecMotor's.
StepRaised == TRUE

----------------------------------------------------------------------------
\* BowlStateAndHopperController (src/src/detector/bowl_state_detector.py)

DEBUG_MODE == TRUE
CONFIDENCE_THRESHOLD == 420
MAX_CONSECUTIVE_FAILURES == 3
MAX_RECONNECT_ATTEMPTS == 5
RETRY_INTERVAL == 2
MAX_PUBLISH_RETRIES == 3
PublishPause == 1
LoopDelay == 10

\* what one capture-and-inference can come to: no frame, an exception outside
\* the try (preprocess_frame, save_debug_image), an exception of predict_proba,
\* or the model's probability of "empty"
EmptyProbs == {60, 420, 540}
CombinedFrames ==
    {[kind |-> k, p_empty |-> 0] : k \in {"no_frame", "raises", "inference_error"}}
    \cup {[kind |-> "ok", p_empty |-> q] : q \in EmptyProbs}

Max(a, b) == IF a >= b THEN a ELSE b

\* is_bowl_empty of the combined controller, on one frame
CombinedIsBowlEmpty(f) ==
    IF f.kind \in {"no_frame", "inference_error"}
    THEN [is_empty |-> FALSE, confidence |-> 0]
    ELSE [is_empty |-> IF DEBUG_MODE THEN TRUE ELSE f.p_empty > CONFIDENCE_THRESHOLD,
          confidence |-> Max(f.p_empty, 600 - f.p_empty)]

CombinedOff ==
    /\ c_pc = "off"
    /\ c_timer = 0
    /\ c_is_empty = FALSE
    /\ c_conf = 0
    /\ ipc_client = 0
    /\ last_client = 0
    /\ subscribed = FALSE
    /\ consecutive_failures = 0
    /\ g_attempt = 0
    /\ g_fails = 0
    /\ g_result = "none"
    /\ p_attempt = 0
    /\ p_tries = 0
    /\ p_fails = 0
    /\ p_used = {}
    /\ p_result = "none"
    /\ cb_pc = "off"
    /\ cb_timer = 0
    /\ fails_run = 0
    /\ reconnect_calls = 0

\* __init__: the motor is set up disabled, no client, no failure counted
CombinedInit ==
    /\ c_pc = "start"
    /\ c_timer = 0
    /\ c_is_empty = FALSE
    /\ c_conf = 0
    /\ ipc_client = 0
    /\ last_client = 0
    /\ subscribed = FALSE
    /\ consecutive_failures = 0
    /\ g_attempt = 0
    /\ g_fails = 0
    /\ g_result = "none"
    /\ p_attempt = 0
    /\ p_tries = 0
    /\ p_fails = 0
    /\ p_used = {}
    /\ p_result = "none"
    /\ cb_pc = "idle"
    /\ cb_timer = 0
    /\ fails_run = 0
    /\ reconnect_calls = 0

getVars == <<g_attempt, g_fails, g_result>>
pubVars == <<p_attempt, p_tries, p_fails, p_used, p_result>>
cbVars == <<cb_pc, cb_timer>>
cycleVars == <<c_is_empty, c_conf>>
sessionVars == <<ipc_client, last_client, consecutive_failures, fails_run,
                 reconnect_calls>>

InStartup == c_pc \in {"start_connecting", "start_connect_wait", "start_subscribe"}

\* ---- get_ipc_client

\* run(): self.ipc_client = self.get_ipc_client(), before the loop
RunStart ==
    /\ c_pc = "start"
    /\ c_pc' = "start_connecting"
    /\ g_attempt' = 0
    /\ g_fails' = 0
    /\ g_result' = "running"
    /\ UNCHANGED <<c_timer, cycleVars, sessionVars, subscribed, pubVars, cbVars,
                   pinVars, timeVars>>

\* the top of the loop: `if self.ipc_client is None` calls get_ipc_client
\* (the history counter of these calls stops counting at MaxReconnectCalls)
LoopTop ==
    /\ c_pc = "loop_top"
    /\ IF ipc_client = 0
       THEN /\ c_pc' = "loop_connecting"
            /\ g_attempt' = 0
            /\ g_fails' = 0
            /\ g_result' = "running"
            /\ reconnect_calls' = IF reconnect_calls < MaxReconnectCalls
                                  THEN reconnect_calls + 1 ELSE reconnect_calls
       ELSE /\ c_pc' = "classify"
            /\ UNCHANGED <<getVars, reconnect_calls>>
    /\ UNCHANGED <<c_timer, cycleVars, ipc_client, last_client, consecutive_failures,
                   fails_run, subscribed, pubVars, cbVars, pinVars, timeVars>>

\* An attempt loop that runs once more than range(MAX_RECONNECT_ATTEMPTS).
OneMoreConnectAttempt(attempt) == attempt < MAX_RECONNECT_ATTEMPTS

\* `if attempt < MAX_RECONNECT_ATTEMPTS - 1`: another attempt follows
MoreConnectAttempts(attempt) == attempt < MAX_RECONNECT_ATTEMPTS - 1

\* every connect() returns a client object of its own: told apart from the
\* one before it
NewClient(last) == IF last = 1 THEN 2 ELSE 1

\* awsiot.greengrasscoreipc.connect() returns a client: get_ipc_client returns it
ConnectOk ==
    /\ c_pc \in {"start_connecting", "loop_connecting"}
    /\ ipc_client' = NewClient(last_client)
    /\ last_client' = NewClient(last_client)
    /\ g_result' = "client"
    /\ c_pc' = IF InStartup THEN "start_subscribe" ELSE "loop_subscribe"
    /\ UNCHANGED <<c_timer, cycleVars, consecutive_failures, fails_run,
                   reconnect_calls, subscribed, g_attempt, g_fails, pubVars, cbVars,
                   pinVars, timeVars>>

\* connect() raises and attempts are left: sleep RETRY_INTERVAL
ConnectFails ==
    /\ c_pc \in {"start_connecting", "loop_connecting"}
    /\ MoreConnectAttempts(g_attempt)
    /\ g_fails' = g_fails + 1
    /\ c_timer' = Ticks(RETRY_INTERVAL)
    /\ c_pc' = IF InStartup THEN "start_connect_wait" ELSE "loop_connect_wait"
    /\ UNCHANGED <<cycleVars, sessionVars, subscribed, g_attempt, g_result, pubVars,
                   cbVars, pinVars, timeVars>>

\* the sleep is over: the next attempt of the for loop
ConnectRetry ==
    /\ c_pc \in {"start_connect_wait", "loop_connect_wait"}
    /\ c_timer = 0
    /\ g_attempt' = g_attempt + 1
    /\ c_pc' = IF InStartup THEN "start_connecting" ELSE "loop_connecting"
    /\ UNCHANGED <<c_timer, cycleVars, sessionVars, subscribed, g_fails, g_result,
                   pubVars, cbVars, pinVars, timeVars>>

\* A ConnectionError that ends run() wherever it is raised.
ConnectFailsLastFatal ==
    /\ c_pc \in {"start_connecting", "loop_connecting"}
    /\ ~MoreConnectAttempts(g_attempt)
    /\ g_fails' = g_fails + 1
    /\ g_result' = "ConnectionError"
    /\ c_pc' = "fatal"
    /\ UNCHANGED <<c_timer, cycleVars, sessionVars, subscribed, g_attempt, pubVars, cbVars,
                   pinVars, timeVars>>

\* connect() raises on the last attempt: get_ipc_client raises ConnectionError.
\* Before the loop that is fatal; inside the loop the except clause of the
\* cycle logs it and sleeps.
ConnectFailsLast ==
    /\ c_pc \in {"start_connecting", "loop_connecting"}
    /\ ~MoreConnectAttempts(g_attempt)
    /\ g_fails' = g_fails + 1
    /\ g_result' = "ConnectionError"
    /\ IF InStartup
       THEN c_pc' = "fatal" /\ UNCHANGED c_timer
       ELSE c_pc' = "sleep" /\ c_timer' = Ticks(LoopDelay)
    /\ UNCHANGED <<cycleVars, sessionVars, subscribed, g_attempt, pubVars, cbVars,
                   pinVars, timeVars>>

\* subscribe_for_commands: subscribes on_command to bowl/command, or logs
\* the failure
Subscribe ==
    /\ c_pc \in {"start_subscribe", "loop_subscribe"}
    /\ subscribed' \in {subscribed, TRUE}
    /\ c_pc' = IF InStartup THEN "loop_top" ELSE "classify"
    /\ g_attempt' = 0
    /\ g_fails' = 0
    /\ g_result' = "none"
    /\ UNCHANGED <<c_timer, cycleVars, sessionVars, pubVars, cbVars, pinVars, timeVars>>

\* the finally clause of run(): cap.release(), GPIO.cleanup()
FatalExit ==
    /\ c_pc = "fatal"
    /\ c_pc' = "exited"
    /\ en_pin' = "INPUT"
    /\ step_pin' = "INPUT"
    /\ UNCHANGED <<c_timer, cycleVars, sessionVars, subscribed, getVars, pubVars,
                   cbVars, timeVars>>

\* ---- one cycle

\* is_empty, conf = self.is_bowl_empty(); an exception ends the cycle in the
\* except clause, which sleeps
Classify ==
    /\ c_pc = "classify"
    /\ \E f \in CombinedFrames :
        IF f.kind = "raises"
        THEN /\ c_pc' = "sleep"
             /\ c_timer' = Ticks(LoopDelay)
             /\ UNCHANGED <<cycleVars, pubVars>>
        ELSE /\ c_is_empty' = CombinedIsBowlEmpty(f).is_empty
             /\ c_conf' = CombinedIsBowlEmpty(f).confidence
             /\ c_pc' = "publish"
             /\ p_attempt' = 0
             /\ p_tries' = 0
             /\ p_fails' = 0
             /\ p_used' = {}
             /\ p_result' = "running"
             /\ UNCHANGED c_timer
    /\ UNCHANGED <<sessionVars, subscribed, getVars, cbVars, pinVars, timeVars>>

\* A success that leaves the failure counter alone.
AfterPublishSuccessKeeps(cf) == cf

\* run(): `else: self.consecutive_failures = 0`
AfterPublishSuccess(cf) == 0

\* A threshold handling that discards the client and keeps the count.
AfterPublishFailureKeepsCount(cf, client) ==
    IF cf + 1 >= MAX_CONSECUTIVE_FAILURES
    THEN [consecutive_failures |-> cf + 1, ipc_client |-> 0]
    ELSE [consecutive_failures |-> cf + 1, ipc_client |-> client]

\* A threshold handling that resets the count and keeps the client.
AfterPublishFailureKeepsClient(cf, client) ==
    IF cf + 1 >= MAX_CONSECUTIVE_FAILURES
    THEN [consecutive_failures |-> 0, ipc_client |-> client]
    ELSE [consecutive_failures |-> cf + 1, ipc_client |-> client]

\* A threshold handling that discards the client one failure later.
AfterPublishFailureLateDiscard(cf, client) ==
    IF cf + 1 > MAX_CONSECUTIVE_FAILURES
    THEN [consecutive_failures |-> 0, ipc_client |-> 0]
    ELSE [consecutive_failures |-> cf + 1, ipc_client |-> client]

\* run(): publish_state returned False: count it, and at
\* MAX_CONSECUTIVE_FAILURES drop the client and the count
AfterPublishFailure(cf, client) ==
    IF cf + 1 >= MAX_CONSECUTIVE_FAILURES
    THEN [consecutive_failures |-> 0, ipc_client |-> 0]
    ELSE [consecutive_failures |-> cf + 1, ipc_client |-> client]

\* An attempt loop that runs once more than range(MAX_PUBLISH_RETRIES).
OneMorePublishAttempt(attempt) == attempt < MAX_PUBLISH_RETRIES

\* `if attempt < MAX_PUBLISH_RETRIES - 1`: another attempt follows
MorePublishAttempts(attempt) == attempt < MAX_PUBLISH_RETRIES - 1

\* an attempt succeeds: publish_state returns True, run() resets the counter
PublishOk ==
    /\ c_pc = "publish"
    /\ ipc_client # 0
    /\ p_tries' = p_tries + 1
    /\ p_used' = p_used \cup {ipc_client}
    /\ p_result' = "True"
    /\ consecutive_failures' = AfterPublishSuccess(consecutive_failures)
    /\ fails_run' = 0
    /\ c_pc' = "decide"
    /\ UNCHANGED <<c_timer, cycleVars, ipc_client, last_client, reconnect_calls,
                   subscribed, getVars, p_attempt, p_fails, cbVars, pinVars, timeVars>>

\* A failed attempt that is counted as a failure of its own.
PublishFailsCounted ==
    /\ c_pc = "publish"
    /\ MorePublishAttempts(p_attempt)
    /\ p_tries' = p_tries + 1
    /\ p_fails' = p_fails + 1
    /\ p_used' = p_used \cup {ipc_client}
    /\ c_timer' = Ticks(PublishPause)
    /\ c_pc' = "publish_wait"
    /\ consecutive_failures' = (consecutive_failures + 1) % MAX_CONSECUTIVE_FAILURES
    /\ UNCHANGED <<cycleVars, ipc_client, last_client, fails_run, reconnect_calls,
                   subscribed, getVars, p_attempt, p_result, cbVars, pinVars, timeVars>>

\* an attempt raises and attempts are left: sleep 1 s
PublishFails ==
    /\ c_pc = "publish"
    /\ MorePublishAttempts(p_attempt)
    /\ p_tries' = p_tries + 1
    /\ p_fails' = p_fails + 1
    /\ p_used' = p_used \cup {ipc_client}
    /\ c_timer' = Ticks(PublishPause)
    /\ c_pc' = "publish_wait"
    /\ UNCHANGED <<cycleVars, sessionVars, subscribed, getVars, p_attempt, p_result,
                   cbVars, pinVars, timeVars>>

PublishRetry ==
    /\ c_pc = "publish_wait"
    /\ c_timer = 0
    /\ p_attempt' = p_attempt + 1
    /\ c_pc' = "publish"
    /\ UNCHANGED <<c_timer, cycleVars, sessionVars, subscribed, getVars, p_tries,
                   p_fails, p_used, p_result, cbVars, pinVars, timeVars>>

\* the last attempt raises: publish_state returns False, run() counts the
\* failure and at the threshold discards the client
PublishFailsLast ==
    /\ c_pc = "publish"
    /\ ~MorePublishAttempts(p_attempt)
    /\ p_tries' = p_tries + 1
    /\ p_fails' = p_fails + 1
    /\ p_used' = p_used \cup {ipc_client}
    /\ p_result' = "False"
    /\ LET r == AfterPublishFailure(consecutive_failures, ipc_client)
       IN  /\ consecutive_failures' = r.consecutive_failures
           /\ ipc_client' = r.ipc_client
           /\ reconnect_calls' = IF r.ipc_client = 0 /\ ipc_client # 0
                                 THEN 0 ELSE reconnect_calls
    /\ fails_run' = IF fails_run >= MAX_CONSECUTIVE_FAILURES THEN 1 ELSE fails_run + 1
    /\ c_pc' = "decide"
    /\ UNCHANGED <<c_timer, cycleVars, last_client, subscribed, getVars, p_attempt,
                   cbVars, pinVars, timeVars>>

\* `if DEBUG_MODE: self.dispense() elif is_empty and conf > CONFIDENCE_THRESHOLD:
\* self.dispense()`, else time.sleep(10)
DispenseDecision ==
    /\ c_pc = "decide"
    /\ IF DEBUG_MODE \/ (c_is_empty /\ c_conf > CONFIDENCE_THRESHOLD)
       THEN c_pc' = "d_enable" /\ UNCHANGED c_timer
       ELSE c_pc' = "sleep" /\ c_timer' = Ticks(LoopDelay)
    /\ c_is_empty' = FALSE
    /\ c_conf' = 0
    /\ p_attempt' = 0
    /\ p_tries' = 0
    /\ p_fails' = 0
    /\ p_used' = {}
    /\ p_result' = "none"
    /\ UNCHANGED <<sessionVars, subscribed, getVars, cbVars, pinVars, timeVars>>

\* dispense(): enable_motor; the stepping then takes DispenseSeconds
LoopEnable ==
    /\ c_pc = "d_enable"
    /\ en_pin' = "LOW"
    /\ c_timer' = Ticks(DispenseSeconds)
    /\ c_pc' = "d_step"
    /\ UNCHANGED <<step_pin, cycleVars, sessionVars, subscribed, getVars, pubVars,
                   cbVars, timeVars>>

\* dispense(): the pulses have been emitted, or one of them raised
LoopStep ==
    /\ c_pc = "d_step"
    /\ c_timer = 0 \/ StepRaised
    /\ c_pc' = "d_disable"
    /\ UNCHANGED <<pinVars, c_timer, cycleVars, sessionVars, subscribed, getVars,
                   pubVars, cbVars, timeVars>>

\* dispense(): finally disable_motor; dispense returns; time.sleep(10)
LoopDisable ==
    /\ c_pc = "d_disable"
    /\ en_pin' = "HIGH"
    /\ DispenseReturns
    /\ c_timer' = Ticks(LoopDelay)
    /\ c_pc' = "sleep"
    /\ UNCHANGED <<step_pin, cycleVars, sessionVars, subscribed, getVars, pubVars,
                   cbVars>>

\* the sleep that ends a cycle (or its except clause) is over
LoopSleepEnds ==
    /\ c_pc = "sleep"
    /\ c_timer = 0
    /\ c_pc' = "loop_top"
    /\ UNCHANGED <<c_timer, cycleVars, sessionVars, subscribed, getVars, pubVars,
                   cbVars, pinVars, timeVars>>

\* ---- on_command, on the thread of the IPC client

\* a message arrives on bowl/command; {"empty": true} calls self.dispense()
OnCommand ==
    /\ cb_pc = "idle"
    /\ subscribed
    /\ c_pc \notin {"fatal", "exited"}
    /\ \E empty \in BOOLEAN : cb_pc' = IF empty THEN "d_enable" ELSE "idle"
    /\ UNCHANGED <<cb_timer, c_pc, c_timer, cycleVars, sessionVars, subscribed, getVars,
                   pubVars, pinVars, timeVars>>

CommandEnable ==
    /\ cb_pc = "d_enable"
    /\ en_pin' = "LOW"
    /\ cb_timer' = Ticks(DispenseSeconds)
    /\ cb_pc' = "d_step"
    /\ UNCHANGED <<step_pin, c_pc, c_timer, cycleVars, sessionVars, subscribed, getVars,
                   pubVars, timeVars>>

CommandStep ==
    /\ cb_pc = "d_step"
    /\ cb_timer = 0 \/ StepRaised
    /\ cb_pc' = "d_disable"
    /\ UNCHANGED <<pinVars, cb_timer, c_pc, c_timer, cycleVars, sessionVars, subscribed,
                   getVars, pubVars, timeVars>>

CommandDisable ==
    /\ cb_pc = "d_disable"
    /\ en_pin' = "HIGH"
    /\ DispenseReturns
    /\ cb_pc' = "idle"
    /\ UNCHANGED <<step_pin, cb_timer, c_pc, c_timer, cycleVars, sessionVars, subscribed,
                   getVars, pubVars>>

CombinedTick ==
    /\ c_pc # "off"
    /\ HistoryTick
    /\ c_timer' = Expire(c_timer)
    /\ cb_timer' = Expire(cb_timer)
    /\ UNCHANGED <<c_pc, cycleVars, sessionVars, subscribed, getVars, pubVars, cb_pc,
                   pinVars>>

NextCombined ==
    /\ \/ RunStart
       \/ LoopTop
       \/ ConnectOk
       \/ ConnectFails
       \/ ConnectRetry
       \/ ConnectFailsLast
       \/ Subscribe
       \/ FatalExit
       \/ Classify
       \/ PublishOk
       \/ PublishFails
       \/ PublishRetry
       \/ PublishFailsLast
       \/ DispenseDecision
       \/ LoopEnable
       \/ LoopStep
       \/ LoopDisable
       \/ LoopSleepEnds
       \/ OnCommand
       \/ CommandEnable
       \/ CommandStep
       \/ CommandDisable
       \/ CombinedTick
    /\ UNCHANGED <<motorVars, estVars, orchVars, telVars, sharedVars>>


----------------------------------------------------------------------------
\* The orchestrators: main() of src/aws/main.py, a sequential loop, and
\* SnackBotComponent of src/src/app/main.py, a loop that hands dispense_snack
\* to a pool of max_workers threads.  detector.is_bowl_empty() is modelled by
\* what it can return.  src/src/app/main.py never imports signal, so
\* SnackBotComponent.__init__ raises NameError at its last two statements;
\* the methods are modelled on an object with the fields __init__ has set
\* by then.

aws_confidence_threshold == 420
aws_check_interval == 5
app_confidence_threshold == 420
app_check_interval == 2
consecutive_empty_required == 2
max_workers == 2
ErrorPause == 1
VerifyPause == 2

Workers == 1..max_workers

\* time.time() - last_dispense_time is followed up to one tick past the
\* cooldown; last_dispense_time = 0 lies further back than that
ElapsedCap == Ticks(min_dispense_interval) + 1

Min(a, b) == IF a <= b THEN a ELSE b

\* the cycle has not called publish_state
NotPublished == [is_empty |-> FALSE, confidence |-> -1]

\* A cycle that goes on to the decision without calling publish_state.
PublishSkipped(is_empty, confidence) == NotPublished

\* publish_state(is_empty, confidence) of the main loop: the arguments of
\* the call
PublishState(is_empty, confidence) == [is_empty |-> is_empty, confidence |-> confidence]

OrchOff ==
    /\ aws_pc = "off"
    /\ app_pc = "off"
    /\ o_timer = 0
    /\ o_is_empty = FALSE
    /\ o_conf = 0
    /\ o_tmp = 0
    /\ o_ret = "none"
    /\ published = NotPublished
    /\ elapsed = 0
    /\ consecutive_empty_count = 0
    /\ is_dispensing = FALSE
    /\ queue = 0
    /\ w_pc = [i \in Workers |-> "off"]
    /\ w_timer = [i \in Workers |-> 0]
    /\ running = TRUE
    /\ camera = "open"
    /\ h_pc = "off"

\* A cooldown test that always passes.
CooldownAlwaysPassed(e) == TRUE

\* `time.time() - last_dispense_time >= min_dispense_interval`
CooldownPassed(e) == e >= Ticks(min_dispense_interval)

\* ---- src/aws/main.py

AwsProbs == {60, 360, 420, 570}
AwsFrames ==
    {[kind |-> k, p_empty |-> 0] : k \in {"no_frame", "raises"}}
    \cup {[kind |-> "ok", p_empty |-> q] : q \in AwsProbs}

\* is_bowl_empty of src/common/vision/predict.py, on the frame it read
CommonIsBowlEmpty(f) ==
    IF f.kind = "no_frame"
    THEN [is_empty |-> FALSE, confidence |-> 0]
    ELSE [is_empty |-> f.p_empty > 300,
          confidence |-> Max(f.p_empty, 600 - f.p_empty)]

\* main(): the two nested ifs in front of motor.dispense()
AwsPermits(is_empty, confidence, e) ==
    /\ is_empty
    /\ confidence >= aws_confidence_threshold
    /\ CooldownPassed(e)

AwsInit ==
    /\ aws_pc = "start"
    /\ app_pc = "off"
    /\ o_timer = 0
    /\ o_is_empty = FALSE
    /\ o_conf = 0
    /\ o_tmp = 0
    /\ o_ret = "none"
    /\ published = NotPublished
    /\ elapsed = ElapsedCap
    /\ consecutive_empty_count = 0
    /\ is_dispensing = FALSE
    /\ queue = 0
    /\ w_pc = [i \in Workers |-> "off"]
    /\ w_timer = [i \in Workers |-> 0]
    /\ running = TRUE
    /\ camera = "open"
    /\ h_pc = "off"

awsIdle == <<app_pc, o_tmp, consecutive_empty_count, is_dispensing, queue, w_pc,
             w_timer, h_pc>>
awsRest == <<awsIdle, published>>

\* is_empty, confidence = detector.is_bowl_empty(); an exception ends the
\* cycle in the except clause: time.sleep(1)
AwsClassify ==
    /\ aws_pc = "classify"
    /\ \E f \in AwsFrames :
        IF f.kind = "raises"
        THEN /\ aws_pc' = "backoff"
             /\ o_timer' = Ticks(ErrorPause)
             /\ UNCHANGED <<o_is_empty, o_conf>>
        ELSE /\ o_is_empty' = CommonIsBowlEmpty(f).is_empty
             /\ o_conf' = CommonIsBowlEmpty(f).confidence
             /\ aws_pc' = "publish"
             /\ UNCHANGED o_timer
    /\ UNCHANGED <<o_ret, elapsed, awsRest, pinVars, running, camera>>

\* publish_state(ipc_client, is_empty, confidence) logs its own failures
AwsPublish ==
    /\ aws_pc = "publish"
    /\ published' = PublishState(o_is_empty, o_conf)
    /\ aws_pc' = "decide"
    /\ UNCHANGED <<o_timer, o_is_empty, o_conf, o_ret, elapsed, awsIdle, pinVars, running, camera>>

\* the decision: motor.dispense(), or on to time.sleep(check_interval)
AwsDecide ==
    /\ aws_pc = "decide"
    /\ IF AwsPermits(o_is_empty, o_conf, elapsed)
       THEN /\ o_ret' = "True"
            /\ aws_pc' = "d_enable"
            /\ UNCHANGED o_timer
       ELSE /\ o_ret' = "False"
            /\ aws_pc' = "sleep"
            /\ o_timer' = Ticks(aws_check_interval)
    /\ UNCHANGED <<o_is_empty, o_conf, elapsed, awsRest, pinVars, running, camera>>

AwsEnable ==
    /\ aws_pc = "d_enable"
    /\ en_pin' = "LOW"
    /\ o_timer' = Ticks(DispenseSeconds)
    /\ aws_pc' = "d_step"
    /\ UNCHANGED <<step_pin, o_is_empty, o_conf, o_ret, elapsed, awsRest, running, camera>>

\* the pulses have been emitted, or one of them raised
AwsStep ==
    /\ aws_pc = "d_step"
    /\ o_timer = 0 \/ StepRaised
    /\ aws_pc' = "d_disable"
    /\ UNCHANGED <<pinVars, o_timer, o_is_empty, o_conf, o_ret, elapsed, awsRest, running, camera>>

\* finally: disable_motor(); motor.dispense() returns
AwsDisable ==
    /\ aws_pc = "d_disable"
    /\ en_pin' = "HIGH"
    /\ aws_pc' = "stamp"
    /\ UNCHANGED <<step_pin, o_timer, o_is_empty, o_conf, o_ret, elapsed, awsRest, running, camera>>

\* last_dispense_time = time.time(); time.sleep(check_interval)
AwsStamp ==
    /\ aws_pc = "stamp"
    /\ elapsed' = 0
    /\ o_timer' = Ticks(aws_check_interval)
    /\ aws_pc' = "sleep"
    /\ UNCHANGED <<o_is_empty, o_conf, o_ret, awsRest, pinVars, running, camera>>

\* A loop that never looks at the flag.
AwsWakeIgnoresFlag ==
    /\ aws_pc = "start" \/ (aws_pc \in {"sleep", "backoff"} /\ o_timer = 0)
    /\ aws_pc' = "classify"
    /\ o_is_empty' = FALSE
    /\ o_conf' = 0
    /\ o_ret' = "none"
    /\ published' = NotPublished
    /\ UNCHANGED <<o_timer, elapsed, awsIdle, pinVars, running, camera>>

\* The loop is entered, or a sleep is over: `while running`.  A flag that is
\* down sends main() on to detector.close().
AwsWake ==
    /\ aws_pc = "start" \/ (aws_pc \in {"sleep", "backoff"} /\ o_timer = 0)
    /\ aws_pc' = IF running THEN "classify" ELSE "close"
    /\ o_is_empty' = FALSE
    /\ o_conf' = 0
    /\ o_ret' = "none"
    /\ published' = NotPublished
    /\ UNCHANGED <<o_timer, elapsed, awsIdle, pinVars, running, camera>>

\* signal_handler, on SIGTERM or SIGINT: running = False.  (A time.sleep
\* that the signal interrupts goes on for the rest of its time.)
AwsSignal ==
    /\ aws_pc \notin {"off", "exited"}
    /\ running
    /\ running' = FALSE
    /\ UNCHANGED <<aws_pc, o_timer, o_is_empty, o_conf, o_ret, elapsed, awsRest,
                   pinVars, camera>>

\* after the loop: detector.close() releases the camera
AwsClose ==
    /\ aws_pc = "close"
    /\ camera' = "released"
    /\ aws_pc' = "cleanup"
    /\ UNCHANGED <<o_timer, o_is_empty, o_conf, o_ret, elapsed, awsRest, pinVars,
                   running>>

\* after the loop: motor.cleanup() of src/common/motor/control.py is
\* GPIO.cleanup() alone, which turns the pins back into inputs; main() returns
AwsCleanup ==
    /\ aws_pc = "cleanup"
    /\ en_pin' = "INPUT"
    /\ step_pin' = "INPUT"
    /\ aws_pc' = "exited"
    /\ UNCHANGED <<o_timer, o_is_empty, o_conf, o_ret, elapsed, awsRest, running,
                   camera>>

AwsTick ==
    /\ aws_pc \notin {"off", "exited"}
    /\ elapsed' = Min(elapsed + 1, ElapsedCap)
    /\ o_timer' = Expire(o_timer)
    /\ UNCHANGED <<aws_pc, o_is_empty, o_conf, o_ret, awsRest, pinVars, running, camera>>

NextAws ==
    /\ \/ AwsClassify
       \/ AwsPublish
       \/ AwsDecide
       \/ AwsEnable
       \/ AwsStep
       \/ AwsDisable
       \/ AwsStamp
       \/ AwsWake
       \/ AwsSignal
       \/ AwsClose
       \/ AwsCleanup
       \/ AwsTick
    /\ UNCHANGED <<motorVars, estVars, combVars, timeVars, telVars, sharedVars>>

\* ---- src/src/app/main.py

\* what BowlStateDetector.is_bowl_empty of src/src/vision/predict.py returns
AppReadings ==
    {[is_empty |-> FALSE, confidence |-> 0],
     [is_empty |-> FALSE, confidence |-> 540],
     [is_empty |-> TRUE, confidence |-> 420],
     [is_empty |-> TRUE, confidence |-> 570]}

\* a released camera yields no frame, so every predict_single_frame gives
\* (None, 0.0) and is_bowl_empty returns confidence 0.0
ReadingsFrom(cam) == {r \in AppReadings : cam = "open" \/ r.confidence = 0}

\* should_dispense: `is_empty and confidence > self.confidence_threshold`
CountsAsEmpty(is_empty, confidence) ==
    is_empty /\ confidence > app_confidence_threshold

\* should_dispense: the value it returns once the cooldown test has passed
EnoughEmpty(count) == count >= consecutive_empty_required

AppInit ==
    /\ aws_pc = "off"
    /\ app_pc = "start"
    /\ o_timer = 0
    /\ o_is_empty = FALSE
    /\ o_conf = 0
    /\ o_tmp = 0
    /\ o_ret = "none"
    /\ published = NotPublished
    /\ elapsed = ElapsedCap
    /\ consecutive_empty_count = 0
    /\ is_dispensing = FALSE
    /\ queue = 0
    /\ w_pc = [i \in Workers |-> "idle"]
    /\ w_timer = [i \in Workers |-> 0]
    /\ running = TRUE
    /\ camera = "open"
    /\ h_pc = "idle"

loopVars == <<app_pc, o_timer, o_is_empty, o_conf, o_tmp, o_ret, published>>

\* the main thread is not inside the signal handler
MainThreadRuns == h_pc \in {"idle", "done"}

\* GPIO.cleanup() has turned the pin back into an input
Released(pin) == pin = "INPUT"

\* run(): is_empty, confidence = self.detector.is_bowl_empty(), then
\* self.publish_state(is_empty, confidence), which logs its own failures; an
\* exception ends the cycle in the except clause: time.sleep(1).
\* (self.last_state of the component only chooses a log line.)
AppClassify ==
    /\ app_pc = "classify"
    /\ MainThreadRuns
    /\ \/ /\ app_pc' = "backoff"
          /\ o_timer' = Ticks(ErrorPause)
          /\ UNCHANGED <<o_is_empty, o_conf, published>>
       \/ \E r \in ReadingsFrom(camera) :
          /\ o_is_empty' = r.is_empty
          /\ o_conf' = r.confidence
          /\ published' = PublishState(r.is_empty, r.confidence)
          /\ app_pc' = "should_cooldown"
          /\ UNCHANGED o_timer
    /\ UNCHANGED <<aws_pc, o_tmp, o_ret, elapsed, consecutive_empty_count,
                   is_dispensing, queue, w_pc, w_timer, pinVars,
                   running, camera, h_pc>>

\* should_dispense: the cooldown test; it returns False, and run() sleeps,
\* when the last dispense is too recent
ShouldCooldown ==
    /\ app_pc = "should_cooldown"
    /\ MainThreadRuns
    /\ IF CooldownPassed(elapsed)
       THEN /\ app_pc' = "should_count"
            /\ UNCHANGED <<o_timer, o_ret, o_is_empty, o_conf, published>>
       ELSE /\ o_ret' = "False"
            /\ app_pc' = "sleep"
            /\ o_timer' = Ticks(app_check_interval)
            /\ o_is_empty' = FALSE
            /\ o_conf' = 0
            /\ published' = NotPublished
    /\ UNCHANGED <<aws_pc, o_tmp, elapsed, consecutive_empty_count, is_dispensing,
                   queue, w_pc, w_timer, pinVars, running, camera, h_pc>>

\* should_dispense: `self.consecutive_empty_count += 1` reads the field, or
\* the else branch writes 0
ShouldCount ==
    /\ app_pc = "should_count"
    /\ MainThreadRuns
    /\ IF CountsAsEmpty(o_is_empty, o_conf)
       THEN /\ consecutive_empty_count < MaxEmptyCount
            /\ o_tmp' = consecutive_empty_count
            /\ app_pc' = "should_store"
            /\ UNCHANGED consecutive_empty_count
       ELSE /\ consecutive_empty_count' = 0
            /\ app_pc' = "should_return"
            /\ UNCHANGED o_tmp
    /\ UNCHANGED <<aws_pc, o_timer, o_is_empty, o_conf, o_ret, published, elapsed,
                   is_dispensing, queue, w_pc, w_timer, pinVars, running, camera, h_pc>>

\* should_dispense: `+= 1` writes the field
ShouldStore ==
    /\ app_pc = "should_store"
    /\ MainThreadRuns
    /\ consecutive_empty_count' = o_tmp + 1
    /\ o_tmp' = 0
    /\ app_pc' = "should_return"
    /\ UNCHANGED <<aws_pc, o_timer, o_is_empty, o_conf, o_ret, published, elapsed,
                   is_dispensing, queue, w_pc, w_timer, pinVars, running, camera, h_pc>>

\* should_dispense returns; run() submits dispense_snack to the executor when
\* it returned True, and sleeps check_interval
ShouldReturn ==
    /\ app_pc = "should_return"
    /\ MainThreadRuns
    /\ IF EnoughEmpty(consecutive_empty_count)
       THEN /\ queue < MaxQueue
            /\ o_ret' = "True"
            /\ queue' = queue + 1
       ELSE /\ o_ret' = "False"
            /\ UNCHANGED queue
    /\ app_pc' = "sleep"
    /\ o_timer' = Ticks(app_check_interval)
    /\ o_is_empty' = FALSE
    /\ o_conf' = 0
    /\ published' = NotPublished
    /\ UNCHANGED <<aws_pc, o_tmp, elapsed, consecutive_empty_count, is_dispensing,
                   w_pc, w_timer, pinVars, running, camera, h_pc>>

\* The loop is entered, or a sleep is over: `while self.running`.  A flag
\* that is down ends the loop, and the with statement waits for the pool.
AppWake ==
    /\ app_pc = "start" \/ (app_pc \in {"sleep", "backoff"} /\ o_timer = 0)
    /\ MainThreadRuns
    /\ app_pc' = IF running THEN "classify" ELSE "join"
    /\ o_ret' = "none"
    /\ UNCHANGED <<aws_pc, o_timer, o_is_empty, o_conf, o_tmp, published, elapsed,
                   consecutive_empty_count, is_dispensing, queue, w_pc, w_timer,
                   pinVars, running, camera, h_pc>>

\* an idle worker of the pool (the workers are alike: the first idle one)
\* takes a submitted dispense_snack and runs its first statement:
\* `if self.is_dispensing: return`
WorkerTake(i) ==
    /\ w_pc[i] = "idle"
    /\ \A j \in Workers : j < i => w_pc[j] # "idle"
    /\ queue > 0
    /\ queue' = queue - 1
    /\ w_pc' = [w_pc EXCEPT ![i] = IF is_dispensing THEN "idle" ELSE "set"]
    /\ UNCHANGED <<aws_pc, loopVars, elapsed, consecutive_empty_count, is_dispensing,
                   w_timer, pinVars, running, camera, h_pc>>

\* dispense_snack: `self.is_dispensing = True`
WorkerSet(i) ==
    /\ w_pc[i] = "set"
    /\ is_dispensing' = TRUE
    /\ w_pc' = [w_pc EXCEPT ![i] = "d_enable"]
    /\ UNCHANGED <<aws_pc, loopVars, elapsed, consecutive_empty_count, queue, w_timer,
                   pinVars, running, camera, h_pc>>

\* self.motor.dispense(): enable_motor; the stepping takes DispenseSeconds.
\* On pins that GPIO.cleanup() has released GPIO.output raises, and the
\* except clause of dispense leads to its finally clause.
WorkerEnable(i) ==
    /\ w_pc[i] = "d_enable"
    /\ IF Released(en_pin)
       THEN /\ w_pc' = [w_pc EXCEPT ![i] = "d_disable"]
            /\ UNCHANGED <<en_pin, w_timer>>
       ELSE /\ en_pin' = "LOW"
            /\ w_timer' = [w_timer EXCEPT ![i] = Ticks(DispenseSeconds)]
            /\ w_pc' = [w_pc EXCEPT ![i] = "d_step"]
    /\ UNCHANGED <<step_pin, aws_pc, loopVars, elapsed, consecutive_empty_count,
                   is_dispensing, queue, running, camera, h_pc>>

\* the pulses have been emitted, or one of them raised
WorkerStep(i) ==
    /\ w_pc[i] = "d_step"
    /\ w_timer[i] = 0 \/ StepRaised
    /\ w_pc' = [w_pc EXCEPT ![i] = "d_disable"]
    /\ w_timer' = [w_timer EXCEPT ![i] = 0]
    /\ UNCHANGED <<pinVars, aws_pc, loopVars, elapsed, consecutive_empty_count,
                   is_dispensing, queue, running, camera, h_pc>>

\* finally: disable_motor(); motor.dispense() returns.  On released pins
\* disable_motor raises out of the finally clause, so motor.dispense() raises
\* and dispense_snack goes to its except clause and on to its finally.
WorkerDisable(i) ==
    /\ w_pc[i] = "d_disable"
    /\ IF Released(en_pin)
       THEN /\ w_pc' = [w_pc EXCEPT ![i] = "finally"]
            /\ UNCHANGED en_pin
       ELSE /\ en_pin' = "HIGH"
            /\ w_pc' = [w_pc EXCEPT ![i] = "stamp"]
    /\ UNCHANGED <<step_pin, aws_pc, loopVars, elapsed, consecutive_empty_count,
                   is_dispensing, queue, w_timer, running, camera, h_pc>>

\* dispense_snack: `self.last_dispense_time = time.time()`
WorkerStamp(i) ==
    /\ w_pc[i] = "stamp"
    /\ elapsed' = 0
    /\ w_pc' = [w_pc EXCEPT ![i] = "reset"]
    /\ UNCHANGED <<aws_pc, loopVars, consecutive_empty_count, is_dispensing, queue,
                   w_timer, pinVars, running, camera, h_pc>>

\* dispense_snack: `self.consecutive_empty_count = 0`; time.sleep(2)
WorkerReset(i) ==
    /\ w_pc[i] = "reset"
    /\ consecutive_empty_count' = 0
    /\ w_timer' = [w_timer EXCEPT ![i] = Ticks(VerifyPause)]
    /\ w_pc' = [w_pc EXCEPT ![i] = "verify"]
    /\ UNCHANGED <<aws_pc, loopVars, elapsed, is_dispensing, queue, pinVars,
                   running, camera, h_pc>>

\* a dispense_snack whose flag is cleared at the end of the try block rather
\* than in a finally clause: an exception leaves it set
WorkerFinallyOnSuccessOnly(i) ==
    /\ \/ w_pc[i] = "verify" /\ w_timer[i] = 0
       \/ w_pc[i] = "finally"
    /\ is_dispensing' = IF w_pc[i] = "finally" THEN is_dispensing ELSE FALSE
    /\ w_pc' = [w_pc EXCEPT ![i] = "idle"]
    /\ UNCHANGED <<aws_pc, loopVars, elapsed, consecutive_empty_count, queue, w_timer,
                   pinVars, running, camera, h_pc>>

\* dispense_snack: after the sleep the verifying is_bowl_empty and
\* publish_state (or the except clause when one of them raised), which write
\* no field of the component; or the except clause after motor.dispense()
\* raised.  Then finally `self.is_dispensing = False`; the worker is idle.
WorkerFinally(i) ==
    /\ \/ w_pc[i] = "verify" /\ w_timer[i] = 0
       \/ w_pc[i] = "finally"
    /\ is_dispensing' = FALSE
    /\ w_pc' = [w_pc EXCEPT ![i] = "idle"]
    /\ UNCHANGED <<aws_pc, loopVars, elapsed, consecutive_empty_count, queue, w_timer,
                   pinVars, running, camera, h_pc>>

\* stop(), the handler of SIGTERM and SIGINT, runs on the main thread
\* between two of its steps, while the workers go on: self.running = False,
\* self.detector.close(), and disable_motor(), the first statement of
\* self.motor.cleanup() of src/src/motor/control.py
AppStop ==
    /\ app_pc \notin {"off", "exited"}
    /\ h_pc = "idle"
    /\ running' = FALSE
    /\ camera' = "released"
    /\ en_pin' = "HIGH"
    /\ h_pc' = "gpio"
    /\ UNCHANGED <<step_pin, aws_pc, loopVars, elapsed, consecutive_empty_count,
                   is_dispensing, queue, w_pc, w_timer>>

\* stop(): GPIO.cleanup(), the second statement of self.motor.cleanup(); the
\* handler returns
AppStopGpio ==
    /\ h_pc = "gpio"
    /\ en_pin' = "INPUT"
    /\ step_pin' = "INPUT"
    /\ h_pc' = "done"
    /\ UNCHANGED <<aws_pc, loopVars, elapsed, consecutive_empty_count, is_dispensing,
                   queue, w_pc, w_timer, running, camera>>

\* the with statement ends: ThreadPoolExecutor.shutdown(wait=True) returns
\* once the submitted tasks have run and the workers are done; run() returns
AppJoin ==
    /\ app_pc = "join"
    /\ MainThreadRuns
    /\ queue = 0
    /\ \A i \in Workers : w_pc[i] = "idle"
    /\ app_pc' = "exited"
    /\ UNCHANGED <<aws_pc, o_timer, o_is_empty, o_conf, o_tmp, o_ret, published, elapsed,
                   consecutive_empty_count, is_dispensing, queue, w_pc, w_timer,
                   pinVars, running, camera, h_pc>>

AppTick ==
    /\ app_pc \notin {"off", "exited"}
    /\ elapsed' = Min(elapsed + 1, ElapsedCap)
    /\ o_timer' = Expire(o_timer)
    /\ w_timer' = [i \in Workers |-> Expire(w_timer[i])]
    /\ UNCHANGED <<aws_pc, app_pc, o_is_empty, o_conf, o_tmp, o_ret, published,
                   consecutive_empty_count, is_dispensing, queue, w_pc, pinVars,
                   running, camera, h_pc>>

NextApp ==
    /\ \/ AppClassify
       \/ ShouldCooldown
       \/ ShouldCount
       \/ ShouldStore
       \/ ShouldReturn
       \/ AppWake
       \/ \E i \in Workers : WorkerTake(i)
       \/ \E i \in Workers : WorkerSet(i)
       \/ \E i \in Workers : WorkerEnable(i)
       \/ \E i \in Workers : WorkerStep(i)
       \/ \E i \in Workers : WorkerDisable(i)
       \/ \E i \in Workers : WorkerStamp(i)
       \/ \E i \in Workers : WorkerReset(i)
       \/ \E i \in Workers : WorkerFinally(i)
       \/ AppStop
       \/ AppStopGpio
       \/ AppJoin
       \/ AppTick
    /\ UNCHANGED <<motorVars, estVars, combVars, timeVars, telVars, sharedVars>>

\* The pool on its own: run() is reduced to its one effect on the workers,
\* `self.executor.submit(self.dispense_snack)`, at any time while the loop runs.
PoolSubmit ==
    /\ running
    /\ MainThreadRuns
    /\ queue < MaxQueue
    /\ queue' = queue + 1
    /\ UNCHANGED <<aws_pc, loopVars, elapsed, consecutive_empty_count, is_dispensing,
                   w_pc, w_timer, pinVars, running, camera, h_pc>>

\* the steps of one worker thread of the pool
WorkerThread(i) ==
    \/ WorkerTake(i)
    \/ WorkerSet(i)
    \/ WorkerEnable(i)
    \/ WorkerStep(i)
    \/ WorkerDisable(i)
    \/ WorkerStamp(i)
    \/ WorkerReset(i)
    \/ WorkerFinally(i)

appFrame == <<motorVars, estVars, combVars, timeVars, telVars, sharedVars>>

NextPool ==
    /\ \/ PoolSubmit
       \/ \E i \in Workers : WorkerTake(i)
       \/ \E i \in Workers : WorkerSet(i)
       \/ \E i \in Workers : WorkerEnable(i)
       \/ \E i \in Workers : WorkerStep(i)
       \/ \E i \in Workers : WorkerDisable(i)
       \/ \E i \in Workers : WorkerStamp(i)
       \/ \E i \in Workers : WorkerReset(i)
       \/ \E i \in Workers : WorkerFinally(i)
       \/ AppStop
       \/ AppStopGpio
       \/ AppTick
    /\ UNCHANGED appFrame

----------------------------------------------------------------------------
\* SnackBotComponent holds one BowlStateDetector.  run() calls its
\* is_bowl_empty once per cycle on the main thread; dispense_snack, on a
\* worker of the pool, calls it after motor.dispense() and time.sleep(2).
\* Neither takes a lock.  Here the transition logic of is_bowl_empty is
\* followed statement by statement on the detector's fields; when run() submits
\* a dispense is left open (should_dispense is SpecApp's).

Callers == {"run", "dispense_snack"}

InIsBowlEmpty(t) == s_pc[t] \in {"capture", "first_test", "compare", "bump", "flip_test"}

MaxUpdates == 3

SharedOff ==
    /\ s_pc = [t \in Callers |-> "off"]
    /\ s_cur = [t \in Callers |-> "none"]
    /\ s_updates = 0
    /\ s_submitted = FALSE

SharedInit ==
    /\ s_pc = [t \in Callers |-> IF t = "run" THEN "top" ELSE "idle"]
    /\ s_cur = [t \in Callers |-> "none"]
    /\ s_updates = 0
    /\ s_submitted = FALSE
    /\ e_pc = "off"
    /\ last_state = "None"
    /\ state_confidence = 0
    /\ consecutive_opposite_predictions = 0
    /\ required_consecutive_changes \in 1..MaxRequiredChanges
    /\ frame_buffer_size = 3
    /\ batch = <<>>
    /\ n_samples = 0
    /\ ret = NoReturn
    /\ calls = 0
    /\ votes = <<>>

detectorRest == <<e_pc, state_confidence, required_consecutive_changes,
                  frame_buffer_size, batch, n_samples, ret, calls, votes>>

\* run(): a cycle begins with self.detector.is_bowl_empty()
SharedLoopCall ==
    /\ s_pc["run"] = "top"
    /\ s_pc' = [s_pc EXCEPT !["run"] = "capture"]
    /\ s_updates' = 0
    /\ UNCHANGED <<s_cur, s_submitted, last_state, consecutive_opposite_predictions,
                   detectorRest>>

\* a worker takes the submitted dispense_snack: motor.dispense(), the stamp,
\* time.sleep(2)
SharedWorkerStart ==
    /\ s_pc["dispense_snack"] = "idle"
    /\ s_submitted
    /\ s_submitted' = FALSE
    /\ s_pc' = [s_pc EXCEPT !["dispense_snack"] = "dispensed"]
    /\ UNCHANGED <<s_cur, s_updates, last_state, consecutive_opposite_predictions,
                   detectorRest>>

\* dispense_snack: is_empty, confidence = self.detector.is_bowl_empty()
SharedWorkerCall ==
    /\ s_pc["dispense_snack"] = "dispensed"
    /\ s_pc' = [s_pc EXCEPT !["dispense_snack"] = "capture"]
    /\ UNCHANGED <<s_cur, s_updates, s_submitted, last_state,
                   consecutive_opposite_predictions, detectorRest>>

\* is_bowl_empty returns to its caller: run() goes on to publish_state and
\* should_dispense, which can submit a dispense_snack only on an Empty state,
\* and sleeps; dispense_snack publishes and ends
SharedReturn(t, ls) ==
    /\ s_pc' = [s_pc EXCEPT ![t] = IF t = "run" THEN "top" ELSE "idle"]
    /\ s_cur' = [s_cur EXCEPT ![t] = "none"]
    /\ IF t = "run" /\ Truthy(ls)
       THEN s_submitted' \in {s_submitted, TRUE}
       ELSE UNCHANGED s_submitted

\* the for loop over the frames: no prediction, and the fallback returns; or
\* current_empty is computed
SharedCapture(t) ==
    /\ s_pc[t] = "capture"
    /\ \/ /\ SharedReturn(t, last_state)
          /\ UNCHANGED s_updates
       \/ \E cur \in {"Empty", "Full"} :
          /\ s_cur' = [s_cur EXCEPT ![t] = cur]
          /\ s_pc' = [s_pc EXCEPT ![t] = "first_test"]
          /\ s_updates' = Min(s_updates + 1, MaxUpdates)
          /\ UNCHANGED s_submitted
    /\ UNCHANGED <<last_state, consecutive_opposite_predictions, detectorRest>>

\* `if self.last_state is None`: the first observation is adopted and returned
SharedFirstTest(t) ==
    /\ s_pc[t] = "first_test"
    /\ IF last_state = "None"
       THEN /\ last_state' = s_cur[t]
            /\ SharedReturn(t, s_cur[t])
       ELSE /\ s_pc' = [s_pc EXCEPT ![t] = "compare"]
            /\ UNCHANGED <<last_state, s_cur, s_submitted>>
    /\ UNCHANGED <<s_updates, consecutive_opposite_predictions, detectorRest>>

\* `if current_empty != self.last_state`, or the else branch: the streak is
\* reset and the stored state returned
SharedCompare(t) ==
    /\ s_pc[t] = "compare"
    /\ IF s_cur[t] # last_state
       THEN /\ s_pc' = [s_pc EXCEPT ![t] = "bump"]
            /\ UNCHANGED <<consecutive_opposite_predictions, s_cur, s_submitted>>
       ELSE /\ consecutive_opposite_predictions' = 0
            /\ SharedReturn(t, last_state)
    /\ UNCHANGED <<s_updates, last_state, detectorRest>>

\* `self.consecutive_opposite_predictions += 1`
SharedBump(t) ==
    /\ s_pc[t] = "bump"
    /\ consecutive_opposite_predictions' = consecutive_opposite_predictions + 1
    /\ s_pc' = [s_pc EXCEPT ![t] = "flip_test"]
    /\ UNCHANGED <<s_cur, s_updates, s_submitted, last_state, detectorRest>>

\* `if self.consecutive_opposite_predictions >= self.required_consecutive_changes`:
\* the state flips and the streak is reset; the stored state is returned
SharedFlipTest(t) ==
    /\ s_pc[t] = "flip_test"
    /\ IF consecutive_opposite_predictions >= required_consecutive_changes
       THEN /\ last_state' = s_cur[t]
            /\ consecutive_opposite_predictions' = 0
            /\ SharedReturn(t, s_cur[t])
       ELSE /\ SharedReturn(t, last_state)
            /\ UNCHANGED <<last_state, consecutive_opposite_predictions>>
    /\ UNCHANGED <<s_updates, detectorRest>>

NextShared ==
    /\ \/ SharedLoopCall
       \/ SharedWorkerStart
       \/ SharedWorkerCall
       \/ \E t \in Callers : SharedCapture(t)
       \/ \E t \in Callers : SharedFirstTest(t)
       \/ \E t \in Callers : SharedCompare(t)
       \/ \E t \in Callers : SharedBump(t)
       \/ \E t \in Callers : SharedFlipTest(t)
    /\ UNCHANGED <<pinVars, motorVars, combVars, timeVars, orchVars, telVars>>

----------------------------------------------------------------------------
\* The telemetry message: the dict each publish_state passes to json.dumps.
\* A JSON value is kept with its type; a float is a fraction num / den.

JsonInt(n) == [type |-> "int", num |-> n, den |-> 1]
JsonFloat(n, d) == [type |-> "float", num |-> n, den |-> d]
JsonBool(b) == [type |-> "bool", val |-> b]
JsonString(str) == [type |-> "str", val |-> str]

\* int(time.time()): the whole seconds of a time in milliseconds
UnixSeconds(ms) == JsonInt(ms \div 1000)

\* time.time(): the float itself
UnixTime(ms) == JsonFloat(ms, 1000)

\* a confidence, in units of 1/600, as the float it is
Confidence(c) == JsonFloat(c, 600)

\* SnackBotComponent.publish_state of src/src/app/main.py
AppMessage(now, is_empty, confidence, count) ==
    [timestamp |-> UnixSeconds(now),
     is_empty |-> JsonBool(is_empty),
     confidence |-> Confidence(confidence),
     consecutive_empty |-> JsonInt(count)]

\* publish_state of src/aws/main.py
AwsMessage(now, state, confidence) ==
    [timestamp |-> UnixSeconds(now),
     bowl_empty |-> JsonBool(state),
     confidence |-> Confidence(confidence)]

\* BowlStateAndHopperController.publish_state
CombinedMessage(now, is_empty, confidence) ==
    [message |-> JsonString("Bowl State Update"),
     empty |-> JsonBool(is_empty),
     confidence |-> Confidence(confidence),
     timestamp |-> UnixTime(now),
     activateMotor |-> JsonBool(is_empty /\ confidence > CONFIDENCE_THRESHOLD)]

NoMessage == [none |-> JsonBool(TRUE)]

\* the clock readings, in milliseconds, and the confidences of the calls
Nows == {0, 999, 1000, 2500}
Confidences == {0, 360, 420, 570, 600}

TelemetryOff ==
    /\ t_pc = "off"
    /\ t_now = 0
    /\ t_is_empty = FALSE
    /\ t_conf = 0
    /\ t_count = 0
    /\ message = NoMessage

TelemetryInit ==
    /\ t_pc = "ready"
    /\ t_now \in Nows
    /\ t_is_empty \in BOOLEAN
    /\ t_conf \in Confidences
    /\ t_count \in 0..MaxEmptyCount
    /\ message = NoMessage

AppPublishState ==
    /\ t_pc = "ready"
    /\ message' = AppMessage(t_now, t_is_empty, t_conf, t_count)
    /\ t_pc' = "sent"
    /\ UNCHANGED <<t_now, t_is_empty, t_conf, t_count>>

AwsPublishState ==
    /\ t_pc = "ready"
    /\ message' = AwsMessage(t_now, t_is_empty, t_conf)
    /\ t_pc' = "sent"
    /\ UNCHANGED <<t_now, t_is_empty, t_conf, t_count>>

CombinedPublishState ==
    /\ t_pc = "ready"
    /\ message' = CombinedMessage(t_now, t_is_empty, t_conf)
    /\ t_pc' = "sent"
    /\ UNCHANGED <<t_now, t_is_empty, t_conf, t_count>>

NextTelemetry ==
    /\ \/ AppPublishState
       \/ AwsPublishState
       \/ CombinedPublishState
    /\ UNCHANGED <<pinVars, motorVars, estVars, combVars, timeVars, orchVars,
                   sharedVars>>

----------------------------------------------------------------------------
\* Specifications

InitMotor ==
    PinsInit /\ MotorInit /\ EstimatorOff /\ CombinedOff /\ TimeInit /\ OrchOff
    /\ TelemetryOff /\ SharedOff
SpecMotor == InitMotor /\ [][NextMotor]_vars

InitEstimator ==
    PinsInit /\ MotorOff /\ EstimatorInit /\ CombinedOff /\ TimeInit /\ OrchOff
    /\ TelemetryOff /\ SharedOff
SpecEstimator == InitEstimator /\ [][NextEstimator]_vars

InitCombined ==
    PinsInit /\ MotorOff /\ EstimatorOff /\ CombinedInit /\ TimeInit /\ OrchOff
    /\ TelemetryOff /\ SharedOff
SpecCombined == InitCombined /\ [][NextCombined]_vars

\* The thread of run() keeps being scheduled and time keeps passing; whether
\* commands arrive is left open.
RunThread ==
    \/ RunStart
    \/ LoopTop
    \/ ConnectOk
    \/ ConnectFails
    \/ ConnectRetry
    \/ ConnectFailsLast
    \/ Subscribe
    \/ FatalExit
    \/ Classify
    \/ PublishOk
    \/ PublishFails
    \/ PublishRetry
    \/ PublishFailsLast
    \/ DispenseDecision
    \/ LoopEnable
    \/ LoopStep
    \/ LoopDisable
    \/ LoopSleepEnds
FairCombined ==
    /\ SpecCombined
    /\ WF_vars(RunThread /\ UNCHANGED <<motorVars, estVars, orchVars, telVars, sharedVars>>)
    /\ WF_vars(CombinedTick /\ UNCHANGED <<motorVars, estVars, orchVars, telVars, sharedVars>>)

InitAws ==
    PinsInit /\ MotorOff /\ EstimatorOff /\ CombinedOff /\ TimeInit /\ AwsInit
    /\ TelemetryOff /\ SharedOff
SpecAws == InitAws /\ [][NextAws]_vars

InitApp ==
    PinsInit /\ MotorOff /\ EstimatorOff /\ CombinedOff /\ TimeInit /\ AppInit
    /\ TelemetryOff /\ SharedOff
SpecApp == InitApp /\ [][NextApp]_vars

\* Every worker thread of the pool keeps being scheduled and time keeps
\* passing; when run() submits and whether a signal arrives are left open.
SpecPool == InitApp /\ [][NextPool]_vars
FairPool ==
    /\ SpecPool
    /\ \A i \in Workers : WF_vars(WorkerThread(i) /\ UNCHANGED appFrame)
    /\ WF_vars(AppTick /\ UNCHANGED appFrame)

\* both orchestrators
\* The thread of main() keeps being scheduled and time keeps passing; whether
\* and when a signal arrives is left open.
AwsThread ==
    \/ AwsClassify
    \/ AwsPublish
    \/ AwsDecide
    \/ AwsEnable
    \/ AwsStep
    \/ AwsDisable
    \/ AwsStamp
    \/ AwsWake
    \/ AwsClose
    \/ AwsCleanup

FairAws ==
    /\ SpecAws
    /\ WF_vars(AwsThread /\ UNCHANGED <<motorVars, estVars, combVars, timeVars, telVars, sharedVars>>)
    /\ WF_vars(AwsTick /\ UNCHANGED <<motorVars, estVars, combVars, timeVars, telVars, sharedVars>>)

InitTelemetry ==
    PinsInit /\ MotorOff /\ EstimatorOff /\ CombinedOff /\ TimeInit /\ OrchOff
    /\ TelemetryInit /\ SharedOff
SpecTelemetry == InitTelemetry /\ [][NextTelemetry]_vars

InitShared ==
    PinsInit /\ MotorOff /\ CombinedOff /\ TimeInit /\ OrchOff /\ TelemetryOff
    /\ SharedInit
SpecShared == InitShared /\ [][NextShared]_vars

InitPolicy == InitAws \/ InitApp
NextPolicy == NextAws \/ NextApp
SpecPolicy == InitPolicy /\ [][NextPolicy]_vars

Init ==
    InitMotor \/ InitEstimator \/ InitCombined \/ InitAws \/ InitApp \/ InitTelemetry
    \/ InitShared
\* the three control loops
InitLoops == InitAws \/ InitApp \/ InitCombined
NextLoops == NextAws \/ NextApp \/ NextCombined
SpecLoops == InitLoops /\ [][NextLoops]_vars

Next ==
    NextMotor \/ NextEstimator \/ NextCombined \/ NextAws \/ NextApp \/ NextTelemetry
    \/ NextShared
Spec == Init /\ [][Next]_vars

----------------------------------------------------------------------------
\* Claims about the motor driver (SpecMotor)

\* C1: every invocation of dispense(portions), for every portions >= 1 and
\* wherever enabling or a step pulse raised, has returned with the enable pin
\* HIGH (driver disabled).
C1_DispenseEndsDisabled == m_pc = "returned" => en_pin = "HIGH"

\* a two-portion dispense whose step pulse failed partway through has returned
C1_Witness ==
    /\ m_pc = "returned"
    /\ m_error
    /\ m_amount = 2
    /\ m_pulses > 0
    /\ m_pulses < steps_per_portion

\* C14: once a step pulse has raised inside dispense, no further pulse is
\* made in that call (the step pin is not written again and the remaining
\* steps and portions are dropped), the next thing the call does is to
\* disable the driver, and it then returns to its caller in the ordinary way.
C14_StepErrorAborts ==
    [][/\ (m_pc \in {"step_high", "step_low"} /\ ~m_error /\ m_error') =>
             m_pc' = "finally" /\ m_pulses' = m_pulses
       /\ (m_error /\ m_error') =>
             /\ m_pulses' = m_pulses
             /\ step_pin' = step_pin
             /\ m_portion' = m_portion
             /\ m_pc = "finally" /\ m_pc' = "returned" /\ en_pin' = "HIGH"]_vars

\* the step pulse failed in the second of two portions: the call has returned
\* with the driver disabled and fewer pulses than two portions take
C14_Witness ==
    /\ m_pc = "returned"
    /\ m_error
    /\ m_amount = 2
    /\ m_portion = 1
    /\ m_pulses > steps_per_portion
    /\ m_pulses < 2 * steps_per_portion
    /\ en_pin = "HIGH"

\* C15: a dispense whose pulse sequence failed hands its caller an
\* ActuatorError outcome, and a dispense that succeeded does not.  (Fails:
\* dispense returns None on both paths and raises on neither.)
C15_FailureReported == m_pc = "returned" => (m_ret = "ActuatorError" <=> m_error)

\* C29: inside dispense the driver is enabled whenever a pulse is made;
\* each pulse is the step pin HIGH and then LOW; a portion ends after exactly
\* steps_per_portion pulses, so a call of p portions that succeeded has made
\* exactly p * 200 pulses; once the call is at its disable the step pin is
\* not written again; and a call that succeeded returns with the step pin
\* LOW and the driver disabled.
C29_PinSequence ==
    /\ [](/\ m_pc \in {"step_high", "step_low", "pause"} => en_pin = "LOW"
          /\ (m_pc = "step_low" /\ ~m_error) => step_pin = "HIGH"
          /\ m_pc \in {"step_high", "step_low"} =>
                /\ m_step < steps_per_portion
                /\ m_pulses = m_portion * steps_per_portion + m_step
          /\ m_pc = "pause" =>
                /\ m_step = steps_per_portion
                /\ m_pulses = (m_portion + 1) * steps_per_portion
          /\ m_pc = "enable" => m_pulses = 0
          /\ (m_pc = "returned" /\ ~m_error) =>
                /\ m_pulses = m_amount * steps_per_portion
                /\ step_pin = "LOW"
                /\ en_pin = "HIGH")
    /\ [][/\ (m_pc = "step_high" /\ m_pc' = "step_low") => step_pin' = "HIGH"
          /\ (m_pulses' = m_pulses + 1) =>
                step_pin = "HIGH" /\ step_pin' = "LOW" /\ en_pin = "LOW"
          /\ (step_pin' # step_pin) => (en_pin = "LOW" /\ m_pc \in {"step_high", "step_low"})
          /\ m_pc \in {"finally", "returned"} =>
                step_pin' = step_pin /\ (m_pulses' = m_pulses \/ m_pc' = "enable")]_vars

\* a call of two portions has succeeded
C29_Witness ==
    /\ m_pc = "returned"
    /\ ~m_error
    /\ m_amount = 2
    /\ m_pulses = 2 * steps_per_portion
    /\ step_pin = "LOW"
    /\ en_pin = "HIGH"

----------------------------------------------------------------------------
\* Claims about the estimator (SpecEstimator)

\* The votes that settle the state: the first one, and every vote that ends
\* rcc equal votes in a row.
IsTrigger(v, rcc, j) ==
    \/ j = 1
    \/ /\ j >= rcc
       /\ \A i \in (j - rcc + 1)..j : v[i] = v[j]

LastTrigger(v, rcc) ==
    CHOOSE j \in 1..Len(v) :
        /\ IsTrigger(v, rcc, j)
        /\ \A k \in (j + 1)..Len(v) : ~IsTrigger(v, rcc, k)

\* the number of votes at the end of v that all differ from the state ls
TrailingDisagree(v, ls) ==
    LET agree == {i \in 1..Len(v) : v[i] = ls}
    IN  IF agree = {} THEN Len(v)
        ELSE Len(v) - (CHOOSE i \in agree : \A k \in agree : k <= i)

\* C2: over any sequence of batches, the stored state is the first vote until
\* required_consecutive_changes disagreeing votes have come in a row, flips on
\* exactly that batch, and the streak counts the disagreeing votes since the
\* last agreeing vote or flip (so it is 0 after either).  With
\* required_consecutive_changes = 2 and state Full, votes Empty, Empty, Full
\* give (streak 1, Full), (Empty, streak 0), (streak 1, Empty).
C2_Hysteresis ==
    (e_pc = "ready" /\ votes # <<>>) =>
        /\ last_state = votes[LastTrigger(votes, required_consecutive_changes)]
        /\ consecutive_opposite_predictions = TrailingDisagree(votes, last_state)
        /\ required_consecutive_changes = 2 =>
            /\ votes = <<"Full", "Empty">> =>
                  last_state = "Full" /\ consecutive_opposite_predictions = 1
            /\ votes = <<"Full", "Empty", "Empty">> =>
                  last_state = "Empty" /\ consecutive_opposite_predictions = 0
            /\ votes = <<"Full", "Empty", "Empty", "Full">> =>
                  last_state = "Empty" /\ consecutive_opposite_predictions = 1

\* the scenario has run to its end
C2_Witness ==
    /\ e_pc = "ready"
    /\ required_consecutive_changes = 2
    /\ votes = <<"Full", "Empty", "Empty", "Full">>
    /\ last_state = "Empty"
    /\ consecutive_opposite_predictions = 1

\* C10: a call in which every single-frame classification failed leaves the
\* stored state, the stored confidence and the streak as they were, and
\* returns the previous state with confidence 0.0: Empty only if the previous
\* state was Empty, Full when it was Full or still unknown.
C10_NoSampleFallback ==
    [][(e_pc = "decide" /\ e_pc' = "ready" /\ Samples(batch) = <<>>) =>
          /\ last_state' = last_state
          /\ state_confidence' = state_confidence
          /\ consecutive_opposite_predictions' = consecutive_opposite_predictions
          /\ ret'.is_empty = (last_state = "Empty")
          /\ ret'.confidence = 0]_vars

\* a call without samples has returned while the state was still unknown, and
\* another one while the state was Empty with a streak under way
C10_Witness ==
    \/ /\ e_pc = "ready" /\ calls > 0 /\ last_state = "None"
       /\ ret = [is_empty |-> FALSE, confidence |-> 0]
    \/ /\ e_pc = "ready" /\ last_state = "Empty"
       /\ consecutive_opposite_predictions = 1
       /\ ret = [is_empty |-> TRUE, confidence |-> 0]

\* the classified frames of a batch, and those of them classified Empty
OkFrames(b) == {i \in DOMAIN b : b[i].ok}
EmptyFrames(b) == {i \in DOMAIN b : b[i].ok /\ b[i].is_empty}

\* C11: the first call that classifies at least one frame while the state is
\* unknown stores the majority vote of its samples at once, with their mean
\* confidence as the stored confidence, returns that pair and leaves the
\* streak at 0; the state is unknown only with a streak of 0.  From the
\* second observation on a lone disagreeing vote does not change the state
\* when required_consecutive_changes is 2 or more.
C11_FirstObservation ==
    [][/\ last_state = "None" => consecutive_opposite_predictions = 0
       /\ (e_pc = "decide" /\ e_pc' = "ready" /\ OkFrames(batch) # {}) =>
             LET vote == 2 * Cardinality(EmptyFrames(batch)) > Cardinality(OkFrames(batch))
                 mean == SumConfidence(Samples(batch)) \div Cardinality(OkFrames(batch))
             IN  /\ last_state = "None" =>
                       /\ last_state' = AsState(vote)
                       /\ state_confidence' = mean
                       /\ consecutive_opposite_predictions' = 0
                       /\ ret' = [is_empty |-> vote, confidence |-> mean]
                 /\ (/\ last_state # "None"
                     /\ AsState(vote) # last_state
                     /\ consecutive_opposite_predictions = 0
                     /\ required_consecutive_changes >= 2) =>
                       /\ last_state' = last_state
                       /\ state_confidence' = state_confidence
                       /\ consecutive_opposite_predictions' = 1]_vars

\* after a call without samples, a first observation of Empty at 0.9 has been
\* stored although two changes in a row are required
C11_Witness ==
    /\ e_pc = "ready"
    /\ calls = 2
    /\ votes = <<"Empty">>
    /\ required_consecutive_changes = 2
    /\ last_state = "Empty"
    /\ state_confidence = 540
    /\ consecutive_opposite_predictions = 0
    /\ ret = [is_empty |-> TRUE, confidence |-> 540]

\* C12, as it was stated: the vote of a batch is Empty exactly when more than
\* half of the frame_buffer_size attempts were classified Empty, also when
\* some of the attempts failed.
C12_MajorityOfBufferSize ==
    [][(e_pc = "decide" /\ e_pc' = "ready" /\ OkFrames(batch) # {}) =>
          (votes' = Append(votes, "Empty")
              <=> 2 * Cardinality(EmptyFrames(batch)) > frame_buffer_size)]_vars

\* C12: the vote of a batch is Empty exactly when more than half of the
\* samples obtained were classified Empty (the failed attempts do not count
\* in the half), and Full otherwise, so an exact half votes Full; when no
\* attempt failed that is a strict majority of frame_buffer_size.
C12_MajorityOfSamples ==
    [][(e_pc = "decide" /\ e_pc' = "ready" /\ OkFrames(batch) # {}) =>
          /\ votes' = Append(votes, "Empty")
                <=> 2 * Cardinality(EmptyFrames(batch)) > Cardinality(OkFrames(batch))
          /\ votes' = Append(votes, "Full")
                <=> 2 * Cardinality(EmptyFrames(batch)) <= Cardinality(OkFrames(batch))
          /\ Cardinality(OkFrames(batch)) = frame_buffer_size =>
                (votes' = Append(votes, "Empty")
                    <=> 2 * Cardinality(EmptyFrames(batch)) > frame_buffer_size)]_vars

\* one sample of three attempts has carried the vote Empty, and an exact half
\* of two samples has voted Full
C12_Witness ==
    \/ /\ e_pc = "ready" /\ calls = 1 /\ frame_buffer_size = 3
       /\ n_samples = 1 /\ votes = <<"Empty">>
    \/ /\ e_pc = "ready" /\ calls = 1 /\ frame_buffer_size = 2
       /\ n_samples = 2 /\ votes = <<"Full">> /\ ret.confidence = 450

\* C13: a frame whose classification failed does not end the batch: every
\* call makes frame_buffer_size attempts before it decides, and the failed
\* ones add nothing to the number of samples, to the empty count or to the
\* averaged confidence.
C13_FailedFrameSkipped ==
    [][/\ (e_pc = "capture" /\ e_pc' = "decide") => Len(batch) = frame_buffer_size
       /\ (e_pc = "capture" /\ batch' # batch) =>
             /\ Len(batch') = Len(batch) + 1
             /\ \/ /\ Len(Samples(batch')) = Len(Samples(batch))
                   /\ SumEmpty(Samples(batch')) = SumEmpty(Samples(batch))
                   /\ SumConfidence(Samples(batch')) = SumConfidence(Samples(batch))
                \/ /\ Len(Samples(batch')) = Len(Samples(batch)) + 1
                   /\ SumConfidence(Samples(batch')) > SumConfidence(Samples(batch))
       /\ (e_pc = "decide" /\ e_pc' = "ready") =>
             /\ Len(batch) = frame_buffer_size
             /\ n_samples' = Cardinality(OkFrames(batch))
             /\ (last_state = "None" /\ OkFrames(batch) # {}) =>
                   ret'.confidence
                       = SumConfidence(Samples(batch)) \div Cardinality(OkFrames(batch))]_vars

\* a call of three attempts, two of which failed, has returned the one
\* sample's verdict and confidence
C13_Witness ==
    /\ e_pc = "ready"
    /\ calls = 1
    /\ frame_buffer_size = 3
    /\ n_samples = 1
    /\ ret = [is_empty |-> FALSE, confidence |-> 540]
    /\ last_state = "Full"

C30_StoredConfidence ==
    [][(e_pc = "decide" /\ e_pc' = "ready") =>
          LET vote == AsState(2 * Cardinality(EmptyFrames(batch))
                                  > Cardinality(OkFrames(batch)))
              mean == SumConfidence(Samples(batch)) \div Cardinality(OkFrames(batch))
              first == last_state = "None"
              flip == last_state # "None" /\ last_state' # last_state
          IN  /\ state_confidence' # state_confidence =>
                    OkFrames(batch) # {} /\ (first \/ flip)
              /\ (OkFrames(batch) # {} /\ (first \/ flip)) => state_confidence' = mean
              /\ (OkFrames(batch) # {} /\ ~first /\ ~flip) =>
                    /\ state_confidence' = state_confidence
                    /\ ret' = [is_empty |-> last_state = "Empty",
                               confidence |-> state_confidence]
              /\ (OkFrames(batch) # {} /\ ~first /\ vote # last_state
                     /\ consecutive_opposite_predictions + 1
                            < required_consecutive_changes) => ~flip]_vars

\* Empty was stored with confidence 0.75 from two samples; a batch of one
\* sample (mean 0.6 or 0.9) then voted Full without completing the streak, and
\* the call returned Empty with 0.75
C30_Witness ==
    /\ e_pc = "ready"
    /\ votes = <<"Empty", "Full">>
    /\ n_samples = 1
    /\ required_consecutive_changes = 2
    /\ consecutive_opposite_predictions = 1
    /\ last_state = "Empty"
    /\ state_confidence = 450
    /\ ret = [is_empty |-> TRUE, confidence |-> 450]

----------------------------------------------------------------------------
\* Claims about the combined controller (SpecCombined, FairCombined)

InDispense(pc) == pc \in {"d_enable", "d_step", "d_disable"}

\* C3: no two dispense actions complete less than min_dispense_interval
\* apart.  (Fails: run() has no cooldown and on_command has none either.)
C3_MinDispenseInterval == ~too_soon

\* C4: at most one dispense is in flight on the actuator at any time.
\* (Fails: on_command and run() both call dispense() with no flag between them.)
C4_OneDispenseInFlight == ~(InDispense(c_pc) /\ InDispense(cb_pc))

\* C22: a command {"empty": true} drives the actuator only if no dispense is
\* in progress and the cooldown since the last dispense has elapsed: whenever
\* the command callback enables the motor, the run loop is not inside
\* dispense() and the last dispense returned at least min_dispense_interval
\* ago (or none has returned yet).
C22_CommandGated ==
    [][(cb_pc = "d_enable" /\ cb_pc' = "d_step") =>
          /\ ~InDispense(c_pc)
          /\ since_done = -1 \/ since_done >= Ticks(min_dispense_interval)]_vars

\* C26: the combined controller starts a cycle-driven dispense only in a
\* cycle whose classification was Empty with confidence above the threshold:
\* whenever run() goes from its dispense decision into dispense(), the verdict
\* of that cycle is Empty and its confidence exceeds CONFIDENCE_THRESHOLD.
C26_DispenseOnlyOnEmpty ==
    [][(c_pc = "decide" /\ c_pc' = "d_enable") =>
          (c_is_empty /\ c_conf > CONFIDENCE_THRESHOLD)]_vars

\* C21: telemetry loss does not stop the dispensing: from a cycle that
\* starts without a client (the client was discarded after the publish
\* failures), the loop eventually reaches the classification of the bowl and
\* with it the dispense decision, unless a reconnect succeeds first.
C21_DispenseWithoutTelemetry ==
    (c_pc = "loop_top" /\ ipc_client = 0) ~>
        (c_pc \in {"classify", "decide", "d_enable"} \/ ipc_client # 0)


\* publish_state: the attempts of one call
C6_PublishAttempts ==
    /\ p_tries <= MAX_PUBLISH_RETRIES
    /\ p_tries = p_fails + (IF p_result = "True" THEN 1 ELSE 0)
    /\ p_used \subseteq {last_client}
    /\ last_client \notin p_used => p_tries = 0
    /\ p_result = "running" => p_fails < MAX_PUBLISH_RETRIES
    /\ p_result = "False" => p_fails = MAX_PUBLISH_RETRIES
    /\ p_result \in {"True", "False"} <=> c_pc = "decide"
    /\ c_pc \in {"publish", "publish_wait"} <=> p_result = "running"

C6_PublishTerminates == (p_result = "running") ~> (p_result \in {"True", "False"})

\* C6: publish_state makes at most MAX_PUBLISH_RETRIES attempts, all on the
\* client handle current at the call, stops at the first successful attempt
\* returning True, returns False exactly after the third failed attempt, and
\* always returns.
C6_PublishState == []C6_PublishAttempts /\ C6_PublishTerminates

\* a call that failed three times has returned False, having used one handle
C6_Witness ==
    /\ p_result = "False"
    /\ p_tries = 3
    /\ p_used = {last_client}

\* C7, as it was stated: after the third consecutive failure get_ipc_client
\* is invoked exactly once.
C7_ExactlyOneReconnect == reconnect_calls <= 1

\* C7: the client handle is discarded at the failed publish_state call that
\* is the third in a row, and only there, and the failure counter is 0 from
\* then on; get_ipc_client is invoked at the top of the next cycle, and again
\* at the top of each following cycle only as long as the invocation before
\* it raised ConnectionError; once it has returned a client the counter is
\* still 0, and a publish that then succeeds leaves it at 0.
C7_ReconnectAfterThreeFailures ==
    [][/\ (ipc_client # 0 /\ ipc_client' = 0) =>
             /\ p_result' = "False"
             /\ fails_run' = MAX_CONSECUTIVE_FAILURES
             /\ consecutive_failures' = 0
             /\ reconnect_calls' = 0
       /\ (p_result = "running" /\ p_result' = "False"
              /\ fails_run' = MAX_CONSECUTIVE_FAILURES) => ipc_client' = 0
       /\ (reconnect_calls' = reconnect_calls + 1) =>
             /\ c_pc = "loop_top"
             /\ ipc_client = 0
             /\ consecutive_failures = 0
             /\ reconnect_calls = 0 \/ g_result = "ConnectionError"
       /\ (c_pc = "loop_connecting" /\ g_result' = "client") =>
             ipc_client' # 0 /\ consecutive_failures' = 0
       /\ (ipc_client = 0 \/ ipc_client' = 0) => consecutive_failures' = 0
       /\ (p_result = "running" /\ p_result' = "True") =>
             consecutive_failures' = 0 /\ fails_run' = 0]_vars

\* after a discard a reconnect raised, the next one returned a client, and
\* the publish that followed succeeded
C7_Witness ==
    /\ reconnect_calls = 2
    /\ ipc_client = last_client
    /\ ipc_client # 0
    /\ p_result = "True"
    /\ consecutive_failures = 0

\* C8: a publish_state call that returns True leaves consecutive_failures at
\* 0; one that returns False leaves it one higher than before, or, when
\* that reaches MAX_CONSECUTIVE_FAILURES, at 0 with the client discarded;
\* nothing else changes the counter.
C8_FailureCounter ==
    [][/\ (p_result = "running" /\ p_result' = "True") => consecutive_failures' = 0
       /\ (p_result = "running" /\ p_result' = "False") =>
             \/ /\ consecutive_failures' = consecutive_failures + 1
                /\ consecutive_failures' < MAX_CONSECUTIVE_FAILURES
                /\ ipc_client' = ipc_client
             \/ /\ consecutive_failures + 1 = MAX_CONSECUTIVE_FAILURES
                /\ consecutive_failures' = 0
                /\ ipc_client' = 0
       /\ (consecutive_failures' # consecutive_failures) =>
             p_result = "running" /\ p_result' \in {"True", "False"}]_vars

\* two publish_state calls in a row have failed
C8_Witness ==
    /\ p_result = "False"
    /\ consecutive_failures = 2
    /\ fails_run = 2
    /\ ipc_client # 0

\* get_ipc_client: the attempts of one invocation
C9_ConnectAttempts ==
    /\ g_attempt < MAX_RECONNECT_ATTEMPTS
    /\ g_fails <= MAX_RECONNECT_ATTEMPTS
    /\ g_result = "running" =>
          g_fails < MAX_RECONNECT_ATTEMPTS /\ g_fails \in {g_attempt, g_attempt + 1}
    /\ g_result = "client" =>
          g_fails = g_attempt /\ ipc_client = last_client /\ ipc_client # 0
    /\ g_result = "ConnectionError" <=> g_fails = MAX_RECONNECT_ATTEMPTS
    /\ g_result = "ConnectionError" => ipc_client = 0

C9_ConnectTerminates ==
    (g_result = "running") ~> (g_result \in {"client", "ConnectionError"})

\* C9: get_ipc_client makes at most MAX_RECONNECT_ATTEMPTS connection
\* attempts, returns the client of the first attempt that succeeds, raises
\* ConnectionError exactly when all 5 attempts failed, and always returns or
\* raises.
C9_GetIpcClient == []C9_ConnectAttempts /\ C9_ConnectTerminates

\* a reconnect inside the loop has raised after five failed attempts, and
\* another one has returned a client on its fifth attempt
C9_Witness ==
    \/ g_result = "ConnectionError" /\ g_fails = 5 /\ c_pc = "sleep"
    \/ g_result = "client" /\ g_fails = 4 /\ c_pc = "loop_subscribe"

----------------------------------------------------------------------------
\* Claims about the orchestrators (SpecPolicy)

\* the step in which the cycle's decision is made
AwsDecides == aws_pc = "decide" /\ aws_pc' # "decide"
AppDecides == app_pc \in {"should_cooldown", "should_return"} /\ o_ret' # o_ret

\* C5, as it was stated: a dispense is permitted if and only if the state is
\* Empty, the confidence is at least the threshold, no dispense is in
\* progress and the cooldown has passed.
C5_PermittedIff ==
    [][/\ AwsDecides =>
             (o_ret' = "True" <=>
                 /\ o_is_empty
                 /\ o_conf >= aws_confidence_threshold
                 /\ elapsed >= Ticks(min_dispense_interval))
       /\ AppDecides =>
             (o_ret' = "True" <=>
                 /\ o_is_empty
                 /\ o_conf >= app_confidence_threshold
                 /\ ~is_dispensing
                 /\ elapsed >= Ticks(min_dispense_interval))]_vars

\* C5: the sequential orchestrator starts a dispense if and only if the
\* reading is Empty with confidence >= the threshold and the cooldown has
\* passed (10 s after a dispense denied, 31 s after it permitted).  The
\* threaded orchestrator denies while the cooldown runs, without touching its
\* counter; past the cooldown it counts a reading that is Empty with
\* confidence strictly above the threshold and zeroes the counter on any
\* other, and submits a dispense if and only if the counter has reached
\* consecutive_empty_required; is_dispensing is consulted only by the
\* submitted dispense_snack, which returns without driving the motor when it
\* finds it set.
C5_DispensePolicy ==
    [][/\ AwsDecides =>
             /\ aws_pc' = "d_enable" <=> o_ret' = "True"
             /\ o_ret' = "True" <=>
                   /\ o_is_empty
                   /\ o_conf >= aws_confidence_threshold
                   /\ elapsed >= Ticks(min_dispense_interval)
             /\ (o_is_empty /\ o_conf = 570 /\ elapsed = Ticks(10)) => o_ret' = "False"
             /\ (o_is_empty /\ o_conf = 570 /\ elapsed = Ticks(31)) => o_ret' = "True"
       /\ (app_pc = "should_cooldown" /\ app_pc' # "should_cooldown") =>
             IF elapsed >= Ticks(min_dispense_interval)
             THEN app_pc' = "should_count" /\ o_ret' = "none"
             ELSE /\ o_ret' = "False"
                  /\ app_pc' = "sleep"
                  /\ UNCHANGED <<consecutive_empty_count, queue>>
       /\ (app_pc = "should_cooldown" /\ elapsed = Ticks(10)) => o_ret' # "True"
       /\ (app_pc = "should_count" /\ app_pc' # "should_count") =>
             IF o_is_empty /\ o_conf > app_confidence_threshold
             THEN /\ app_pc' = "should_store"
                  /\ o_tmp' = consecutive_empty_count
                  /\ UNCHANGED consecutive_empty_count
             ELSE consecutive_empty_count' = 0
       /\ (app_pc = "should_store" /\ app_pc' # "should_store") =>
             consecutive_empty_count' = o_tmp + 1
       /\ (app_pc = "should_return" /\ app_pc' # "should_return") =>
             /\ o_ret' = "True" <=> consecutive_empty_count >= consecutive_empty_required
             /\ o_ret' = "True" => o_is_empty /\ o_conf > app_confidence_threshold
             /\ queue' = queue + 1 <=> o_ret' = "True"
       /\ (queue' = queue - 1) =>
             /\ UNCHANGED <<pinVars, is_dispensing>>
             /\ is_dispensing => w_pc' = w_pc
             /\ ~is_dispensing =>
                   \E i \in Workers :
                       w_pc[i] = "idle" /\ w_pc' = [w_pc EXCEPT ![i] = "set"]]_vars

\* past the cooldown, with nothing in progress, the threaded orchestrator has
\* denied the first reading that counted as Empty
C5_Witness ==
    /\ app_pc = "sleep"
    /\ o_ret = "False"
    /\ consecutive_empty_count = 1
    /\ elapsed >= Ticks(31)
    /\ ~is_dispensing
    /\ \A i \in Workers : w_pc[i] = "idle"

\* a worker is past motor.dispense() and has not yet published the state it
\* verifies
FollowUpPending(i) == w_pc[i] \in {"stamp", "reset", "verify"}

\* C23: every dispense that completes is followed by its follow-up
\* publication before the next dispense can start: no worker enables the
\* motor while another worker has completed its dispense and not yet
\* published the follow-up, and main() of src/aws/main.py enters
\* motor.dispense() only in a cycle that has published.
C23_FollowUpBeforeNextDispense ==
    [][/\ \A i \in Workers :
             (w_pc[i] = "d_enable" /\ w_pc'[i] = "d_step") =>
                 \A j \in Workers : ~FollowUpPending(j)
       /\ (aws_pc = "d_enable" /\ aws_pc' = "d_step") =>
             published # NotPublished]_vars

\* C24: in every cycle that obtains a state, that state is handed to
\* publish_state exactly once and before the dispense decision of the cycle,
\* and no dispense is started or submitted in a cycle that has not published:
\* the call is made on a cycle that has not published yet and with the state
\* just obtained, the decision is taken with that call made, and in the
\* combined controller the decision follows a finished publish_state call
\* that was begun once, at the classification.
C24_PublishBeforeDecision ==
    [][/\ (aws_pc = "publish" /\ aws_pc' # "publish") =>
             /\ published = NotPublished
             /\ published' = PublishState(o_is_empty, o_conf)
             /\ aws_pc' = "decide"
       /\ (aws_pc # "decide" /\ aws_pc' = "decide") => aws_pc = "publish"
       /\ AwsDecides => published = PublishState(o_is_empty, o_conf)
       /\ (aws_pc # "d_enable" /\ aws_pc' = "d_enable") =>
             aws_pc = "decide" /\ published # NotPublished
       /\ (app_pc = "classify" /\ app_pc' = "should_cooldown") =>
             /\ published = NotPublished
             /\ published' = PublishState(o_is_empty', o_conf')
       /\ (app_pc # "should_cooldown" /\ app_pc' = "should_cooldown") =>
             app_pc = "classify"
       /\ AppDecides => published = PublishState(o_is_empty, o_conf)
       /\ (published # NotPublished /\ published' # published) =>
             published' = NotPublished
       /\ queue' > queue => published # NotPublished /\ AppDecides
       /\ (c_pc = "classify" /\ c_pc' = "publish") =>
             p_result = "none" /\ p_tries' = 0
       /\ (c_pc # "decide" /\ c_pc' = "decide") =>
             /\ c_pc = "publish"
             /\ p_tries' >= 1
             /\ p_result' \in {"True", "False"}
       /\ (c_pc # "d_enable" /\ c_pc' = "d_enable") =>
             c_pc = "decide" /\ p_result \in {"True", "False"}]_vars

\* main() of src/aws/main.py enters motor.dispense() in a cycle that has
\* published its Empty reading
C24_Witness ==
    /\ aws_pc = "d_enable"
    /\ o_ret = "True"
    /\ published = PublishState(TRUE, 570)

\* C25: the consecutive-empty counter increments only in a cycle whose
\* reading counts as Empty, and a cycle whose reading is Full leaves it at 0,
\* also when the cycle falls into the cooldown window.
C25_CounterResetsOnFull ==
    [][/\ consecutive_empty_count' > consecutive_empty_count =>
             app_pc = "should_store" /\ CountsAsEmpty(o_is_empty, o_conf)
       /\ (app_pc \in {"should_cooldown", "should_return"} /\ app_pc' = "sleep"
              /\ ~o_is_empty) => consecutive_empty_count' = 0]_vars

\* C28: every telemetry message carries an integer "timestamp" in unix
\* seconds, a boolean "is_empty" and a "confidence" between 0 and 1, and a
\* "consecutive_empty", when present, is an integer.
C28_WireFormat ==
    t_pc = "sent" =>
        /\ {"timestamp", "is_empty", "confidence"} \subseteq DOMAIN message
        /\ message.timestamp = UnixSeconds(t_now)
        /\ message.is_empty = JsonBool(t_is_empty)
        /\ message.confidence.type \in {"int", "float"}
        /\ 0 <= message.confidence.num
        /\ message.confidence.num <= message.confidence.den
        /\ "consecutive_empty" \in DOMAIN message =>
              message.consecutive_empty.type = "int"

\* C31: when the failure count reaches MAX_CONSECUTIVE_FAILURES the client
\* handle is discarded, and no publish attempt is made without a handle or
\* with a discarded one: publish_state runs only with a handle, every attempt
\* uses the handle the latest connect() returned, a handle is obtained only
\* by a reconnect, which returns a handle other than the discarded one, and
\* the failure counter is 0 during and after that reconnect.
C31_NoPublishWithoutHandle ==
    /\ [](c_pc \in {"publish", "publish_wait"} => ipc_client # 0)
    /\ []((ipc_client = 0 /\ c_pc \notin {"start", "start_connecting",
                                         "start_connect_wait", "fatal", "exited"})
             => consecutive_failures = 0)
    /\ [][/\ (p_result = "running" /\ p_result' = "False"
                 /\ consecutive_failures + 1 >= MAX_CONSECUTIVE_FAILURES) =>
                ipc_client' = 0
          /\ p_tries' > p_tries =>
                /\ ipc_client # 0
                /\ ipc_client = last_client
                /\ p_used' = {ipc_client}
          /\ (ipc_client = 0 /\ ipc_client' # 0) =>
                /\ c_pc \in {"start_connecting", "loop_connecting"}
                /\ ipc_client' # last_client
                /\ consecutive_failures' = 0]_vars

\* the handle was discarded, a reconnect returned the second handle, and a
\* publish attempt has been made with it
C31_Witness ==
    /\ c_pc = "publish_wait"
    /\ reconnect_calls = 1
    /\ ipc_client = 2
    /\ p_used = {2}
    /\ p_fails = 1

\* the loop is between two cycles: asleep at the end of one, or at the top
\* of the next
CycleBoundary == c_pc \in {"sleep", "loop_top"}

\* C33: at every cycle boundary of the publishing loop the failure counter
\* is at least 0 and below MAX_CONSECUTIVE_FAILURES, and it is 0 whenever the
\* client handle is absent.
C33_FailureCounterBounds ==
    CycleBoundary =>
        /\ 0 <= consecutive_failures
        /\ consecutive_failures < MAX_CONSECUTIVE_FAILURES
        /\ ipc_client = 0 => consecutive_failures = 0

\* a cycle has ended one failed publish_state call short of the discard
C33_Witness ==
    /\ c_pc = "sleep"
    /\ ipc_client # 0
    /\ consecutive_failures = MAX_CONSECUTIVE_FAILURES - 1

\* C34: the failure counter counts publish_state calls that used up all
\* their attempts, not attempts: a failed attempt that is followed by another
\* leaves the counter alone, the counter grows only when a call returns False
\* after MAX_PUBLISH_RETRIES failed attempts, a call that succeeds after one
\* or two failed attempts sets it to 0, and the handle is discarded only by
\* the third fully failed call in a row, that is after 9 failed attempts.
C34_CountsCallsNotAttempts ==
    [][/\ (p_fails' > p_fails /\ p_result' = "running") =>
             consecutive_failures' = consecutive_failures
       /\ consecutive_failures' > consecutive_failures =>
             /\ p_result = "running"
             /\ p_result' = "False"
             /\ p_fails' = MAX_PUBLISH_RETRIES
             /\ consecutive_failures' = consecutive_failures + 1
       /\ (p_result = "running" /\ p_result' = "True") =>
             consecutive_failures' = 0 /\ fails_run' = 0
       /\ (ipc_client # 0 /\ ipc_client' = 0) =>
             /\ p_result' = "False"
             /\ fails_run' = MAX_CONSECUTIVE_FAILURES
             /\ fails_run' * p_fails' = 9]_vars

\* a publish_state call has succeeded on its third attempt, after two
\* failed attempts: the counter is 0
C34_Witness ==
    /\ p_result = "True"
    /\ p_fails = 2
    /\ p_tries = 3
    /\ consecutive_failures = 0
    /\ fails_run = 0
    /\ ipc_client = 1

\* C35: is_bowl_empty is never executed by two threads at once, and the
\* hysteresis state is advanced at most once per cycle of run(): the
\* verification read of dispense_snack neither overlaps a call of run() nor
\* adds an observation between two of them.
C35_EstimatorNotShared ==
    /\ ~(InIsBowlEmpty("run") /\ InIsBowlEmpty("dispense_snack"))
    /\ s_updates <= 1

\* whether dispense_snack is being executed by worker i: it is past its
\* first statement, the test of is_dispensing, and has not returned
Executing(i) == w_pc[i] # "idle"

\* C36: every dispense_snack that has set is_dispensing reaches its finally
\* clause and clears the flag, whether motor.dispense(), the verifying read
\* and the publish succeed or raise: the worker that set the flag ends with
\* the flag down, every return of a dispense_snack that got past the test is
\* a step that writes False, and the flag is never up while no worker
\* executes dispense_snack.
C36_FlagCleared ==
    /\ \A i \in Workers :
           (w_pc[i] = "d_enable" /\ is_dispensing) ~> (~Executing(i) /\ ~is_dispensing)
    /\ []((\A i \in Workers : ~Executing(i)) => ~is_dispensing)
    /\ [][\A i \in Workers :
             (Executing(i) /\ ~Executing(i)') => ~is_dispensing']_vars

\* a dispense_snack has set the flag, stamped its dispense and returned:
\* no worker is executing and the flag is down
C36_Witness ==
    /\ \A i \in Workers : ~Executing(i)
    /\ elapsed < ElapsedCap
    /\ ~is_dispensing

\* C37: a cycle whose classification failed never starts a dispense: when
\* run() of the combined controller stands at its dispense decision with the
\* confidence 0.0 that is_bowl_empty reports for a missing frame or a failed
\* inference, it does not go into dispense().
C37_NoDispenseOnFailedClassification ==
    [][(c_pc = "decide" /\ c_conf = 0) => c_pc' # "d_enable"]_vars

\* C38: the counter of consecutive Empty cycles is 0 after each completed
\* dispense, so that the next dispense needs consecutive_empty_required fresh
\* cycles: while the cooldown of a stamped dispense runs, should_dispense
\* returns before it counts, so between two cycles of run(), with no
\* dispense_snack executing and none queued, the counter is still 0.
C38_CounterZeroAfterDispense ==
    (/\ ~CooldownPassed(elapsed)
     /\ app_pc = "sleep"
     /\ queue = 0
     /\ \A i \in Workers : ~Executing(i))
        => consecutive_empty_count = 0

\* C16, as it was stated: every motor.dispense() that was entered is followed,
\* whatever it did, by the write of last_dispense_time, and the worker that
\* ran it clears is_dispensing when it is done.  (Fails: a motor.dispense()
\* that raises skips the write.)
C16_StampAfterEveryDispense ==
    [][/\ (aws_pc = "d_disable" /\ aws_pc' # "d_disable") => aws_pc' = "stamp"
       /\ (aws_pc = "stamp" /\ aws_pc' # "stamp") => elapsed' = 0
       /\ \A i \in Workers :
             /\ (w_pc[i] = "d_disable" /\ w_pc'[i] # "d_disable") => w_pc'[i] = "stamp"
             /\ (w_pc[i] = "stamp" /\ w_pc'[i] # "stamp") => elapsed' = 0
             /\ (w_pc[i] \notin {"idle", "off"} /\ w_pc'[i] = "idle") =>
                   is_dispensing' = FALSE]_vars

C18_NoCleanupMidDispense ==
    [][(~Released(en_pin) /\ Released(en_pin')) =>
          /\ aws_pc \notin {"d_step", "d_disable"}
          /\ \A i \in Workers : w_pc[i] \notin {"d_step", "d_disable"}]_vars

\* C19: once the flag is down no motor.dispense() is entered.  (Fails:
\* main() of src/aws/main.py tests the flag only at `while running`.)
C19_NoDispenseAfterSignal ==
    [][~running =>
          /\ aws_pc' = "d_enable" => aws_pc = "d_enable"
          /\ \A i \in Workers : w_pc'[i] = "d_enable" => w_pc[i] = "d_enable"]_vars

\* C20: no error inside a cycle ends a control loop.  The sequential and the
\* threaded orchestrator leave their loop only with the flag down, and the
\* combined controller ends only on a ConnectionError before its loop; a
\* cycle that raised goes to its backoff sleep, and the step that ends a
\* sleep takes the loop to the top of the next cycle (or, with the flag
\* down, out of the loop).
C20_ErrorsKeepLoop ==
    [][/\ (aws_pc # "close" /\ aws_pc' = "close") => ~running
       /\ (app_pc # "join" /\ app_pc' = "join") => ~running
       /\ (c_pc # "fatal" /\ c_pc' = "fatal") => c_pc = "start_connecting"
       /\ (c_pc # "exited" /\ c_pc' = "exited") => c_pc = "fatal"
       /\ (aws_pc = "backoff" /\ aws_pc' # "backoff") =>
             o_timer = 0 /\ aws_pc' = IF running THEN "classify" ELSE "close"
       /\ (app_pc = "backoff" /\ app_pc' # "backoff") =>
             o_timer = 0 /\ app_pc' = IF running THEN "classify" ELSE "join"
       /\ (c_pc = "loop_connecting" /\ g_result' = "ConnectionError") =>
             c_pc' = "sleep" /\ c_timer' = Ticks(LoopDelay)
       /\ (c_pc = "classify" /\ c_pc' \notin {"classify", "publish"}) =>
             c_pc' = "sleep" /\ c_timer' = Ticks(LoopDelay)
       /\ (c_pc = "sleep" /\ c_pc' # "sleep") => c_timer = 0 /\ c_pc' = "loop_top"]_vars

\* in the combined controller a reconnect inside the loop raised, the loop
\* slept, and the next cycle is reconnecting again
C20_Witness ==
    /\ c_pc = "loop_connecting"
    /\ reconnect_calls = 2
    /\ ipc_client = 0

====
